---- MODULE Spec2Model ----
(***************************************************************************)
(* A model of the mrx_mta mail transfer agent: the SMTP reception state    *)
(* machine (controllers/smtp_controller.py), the authentication service    *)
(* (services/auth_service.py), the token-bucket rate limiter               *)
(* (models/policy.py, services/policy_service.py) and the delivery queue   *)
(* (services/queue_service.py, models/message.py,                          *)
(* repositories/queue_repository.py).                                      *)
(*                                                                         *)
(* Time is time.time() in whole seconds.  Python's None is the string      *)
(* "None" for text fields and NoTime (-1) for instants.  Addresses are     *)
(* strings; one SMTP session is live at a time (sessions share only the    *)
(* stores).  Pure bookkeeping fields that no operation reads back          *)
(* (session_id, total_requests, login_count, per-recipient attempt         *)
(* counters and timestamps) are left out.                                  *)
(***************************************************************************)
EXTENDS Integers, Sequences, FiniteSets, TLC

\* ------------------------------------------------------------------------
\* Model bounds (configuration knobs of config.py modelled at small values,
\* and sizes of the explored input space)
\* ------------------------------------------------------------------------
SMTP_MAX_RECIPIENTS == 2
SMTP_MAX_MESSAGE_SIZE == 7
SMTP_MAX_UNKNOWN_COMMANDS == 2
SMTP_MAX_ERRORS == 2
AUTH_MAX_FAILURES == 2
RATE_LIMIT_PER_IP == 1
RATE_LIMIT_PER_USER == 1
MaxQueue == 1
MaxAttempts == 8
MaxChecks == 6
MaxAuthTime == 600
MaxRateTime == 3
MaxQueueTime == 604801
MAX_CONNECTIONS_PER_DOMAIN == 1
MaxWorkerAttempts == 1
MaxStored == 3
MaxReadyAttempts == 1
MaxReadyTime == 900
MaxSendAttempts == 2
MaxGreylistChecks == 3
MaxLiveAttempts == 2
MaxLiveTime == 604802
MaxGreylistTime == 173402
GREYLIST_MIN_DELAY == 300
GREYLIST_MAX_AGE == 86400

\* ------------------------------------------------------------------------
\* Program constants
\* ------------------------------------------------------------------------
AUTH_LOCKOUT_DURATION == 300
MAX_QUEUE_AGE == 604800
POLL_LIMIT == 10
USER_RATE_LIMIT == 100
RETRY_SCHEDULE == <<300, 900, 3600, 14400, 43200, 86400, 172800>>
AUTH_REQUIRED_SUBMISSION == TRUE
TLS_REQUIRED_ON_SUBMISSION == TRUE
RATE_REFILL_PERIOD == 3600

CODE_HELP == 214
CODE_READY == 220
CODE_CLOSING == 221
CODE_AUTH_SUCCESS == 235
CODE_OK == 250
CODE_CANNOT_VRFY == 252
CODE_AUTH_CONTINUE == 334
CODE_START_MAIL == 354
CODE_SERVICE_NOT_AVAILABLE == 421
CODE_MAILBOX_UNAVAILABLE == 450
CODE_LOCAL_ERROR == 451
CODE_SYNTAX_ERROR == 500
CODE_SYNTAX_ERROR_PARAM == 501
CODE_NOT_IMPLEMENTED == 502
CODE_BAD_SEQUENCE == 503
CODE_PARAM_NOT_IMPLEMENTED == 504
CODE_AUTH_REQUIRED == 530
CODE_AUTH_FAILED == 535
CODE_MAILBOX_NOT_FOUND == 550
CODE_EXCEEDED_STORAGE == 552

None == "None"
NoTime == 0 - 1

\* ------------------------------------------------------------------------
\* The explored input space
\* ------------------------------------------------------------------------
IPs == {"192.0.2.1"}
Senders == {"u@c.example", "s@bl.example"}
Recipients == {"r1@d.example", "r2@e.example"}
Addresses == Senders \cup Recipients
HeloArgs == {"", "c.example"}
Usernames == {"u", "d", "ghost"}
Passwords == {"p", "x"}

\* str.split('@')[1] of an address of the model
DomainOf(a) ==
    CASE a = "u@c.example" -> "c.example"
      [] a = "s@bl.example" -> "bl.example"
      [] a = "r1@d.example" -> "d.example"
      [] a = "r2@e.example" -> "e.example"
      [] a = "r3@d.example" -> "d.example"
      [] OTHER -> None

\* EMAIL_REGEX.match: the well-formed addresses of the model match, "<>" and
\* "not-an-address" do not
EmailMatch(a) == a \in Addresses

\* the argument of MAIL / RCPT: whether it starts with FROM: / TO:, and the
\* rest of the line
PathArgs == [prefix : BOOLEAN, address : Addresses \cup {"<>", "not-an-address"}]
MailArgs == {a \in PathArgs : a.address \in Senders \cup {"<>", "not-an-address"}}
RcptArgs == {a \in PathArgs : a.address \in Recipients \cup {"not-an-address"}}

\* line terminators
CR == "\r"
LF == "\n"
CRLF == <<CR, LF>>

\* ''.join(lines)
RECURSIVE join(_)
join(lines) == IF lines = <<>> THEN <<>> ELSE Head(lines) \o join(Tail(lines))

\* message payloads: sequences of CRLF-terminated lines, some starting with dots
Payloads == {
    << <<"h", "i">> \o CRLF >>,
    << <<".", "a">> \o CRLF >>,
    << <<"a", "b", "c">> \o CRLF, <<"d", "e", "f">> \o CRLF >> }

\* the client's dot-stuffing of one line, and the DATA stream of a payload:
\* its stuffed lines followed by the "." line
dot_stuff(line) == IF line # <<>> /\ Head(line) = "." THEN <<".">> \o line ELSE line

DataStream(payload) ==
    [i \in 1..Len(payload) |-> dot_stuff(payload[i])] \o << <<".">> \o CRLF >>

\* DATA input: the lines readline returns after 354; a stream without a "."
\* line ends in EOF
Bodies == {DataStream(p) : p \in Payloads} \cup { << <<"h", "i">> \o CRLF >> }

VARIABLES
    session,        \* the SMTPSession of the live connection
    conn,           \* "open" | "closed": whether handle_session's loop runs
    replies,        \* reply codes written by the last handler
    obs,            \* the last command issued and the address it carried
    ghost,          \* history of the session (what the client has seen)
    auth,           \* AuthService.failed_attempts / locked_ips
    users,          \* UserRepository
    blacklist,      \* PolicyRepository blacklist targets
    greylist,       \* PolicyRepository greylist entries, by triplet
    rate_limits,    \* PolicyRepository rate-limit buckets
    queue,          \* QueueRepository: queue_id -> QueuedMessage
    ids_issued,     \* number of queue ids handed out (make_msgid)
    now,            \* time.time()
    auth_log,       \* history of authenticate calls, per peer
    rate_log,       \* history of check_rate_limit calls on the bucket
    workers,        \* DeliveryWorker tasks: where each is in _run
    domain_connections, \* DeliveryService.domain_connections
    delivery_log,   \* history of update_delivery_status and delete calls
    call            \* the last repository query or domain delivery and its result

vars == <<session, conn, replies, obs, ghost, auth, users, blacklist, greylist,
          rate_limits, queue, ids_issued, now, auth_log, rate_log,
          workers, domain_connections, delivery_log, call>>

delivery_vars == <<workers, domain_connections, delivery_log>>

smtp_vars == <<session, conn, replies, obs, ghost>>

stores == <<auth, users, blacklist, greylist, rate_limits, queue, ids_issued>>

\* ------------------------------------------------------------------------
\* AuthService
\* ------------------------------------------------------------------------
hash_password(password) == <<"sha256", password>>

verify_password(user, password) == hash_password(password) = user.password_hash

\* _is_locked: the answer and the service state it leaves
_is_locked(a, ip, t) ==
    IF a.locked_ips[ip] = NoTime
    THEN [locked |-> FALSE, auth |-> a]
    ELSE IF t < a.locked_ips[ip]
    THEN [locked |-> TRUE, auth |-> a]
    ELSE [locked |-> FALSE,
          auth |-> [failed_attempts |-> [a.failed_attempts EXCEPT ![ip] = <<>>],
                    locked_ips |-> [a.locked_ips EXCEPT ![ip] = NoTime]]]

_record_failure(a, ip, t) ==
    LET appended == Append(a.failed_attempts[ip], t)
        kept == SelectSeq(appended, LAMBDA ts : t - ts < AUTH_LOCKOUT_DURATION)
    IN [failed_attempts |-> [a.failed_attempts EXCEPT ![ip] = kept],
        locked_ips |-> IF Len(kept) >= AUTH_MAX_FAILURES
                       THEN [a.locked_ips EXCEPT ![ip] = t + AUTH_LOCKOUT_DURATION]
                       ELSE a.locked_ips]

_clear_failures(a, ip) ==
    [failed_attempts |-> [a.failed_attempts EXCEPT ![ip] = <<>>],
     locked_ips |-> [a.locked_ips EXCEPT ![ip] = NoTime]]

\* authenticate: the returned user (None on failure) and the service state
authenticate(a, us, username, password, ip, t) ==
    LET lk == _is_locked(a, ip, t) IN
    IF lk.locked THEN [user |-> None, auth |-> lk.auth]
    ELSE IF username \notin DOMAIN us
    THEN [user |-> None, auth |-> _record_failure(lk.auth, ip, t)]
    ELSE IF ~us[username].enabled
    THEN [user |-> None, auth |-> lk.auth]
    ELSE IF ~verify_password(us[username], password)
    THEN [user |-> None, auth |-> _record_failure(lk.auth, ip, t)]
    ELSE [user |-> username, auth |-> _clear_failures(lk.auth, ip)]

\* ------------------------------------------------------------------------
\* PolicyService / RateLimit.  A bucket holds tokens as a multiple of
\* 1/rate_den: refill_rate is rate_num/rate_den tokens per second.
\* ------------------------------------------------------------------------
Min(a, b) == IF a < b THEN a ELSE b

refill(b, t) ==
    [b EXCEPT !.tokens = Min(b.capacity * b.rate_den,
                             b.tokens + (t - b.last_refill) * b.rate_num),
              !.last_refill = t]

consume_keeps_tokens(b, t) ==
    LET r == refill(b, t) IN [allowed |-> r.tokens >= r.rate_den, bucket |-> r]

\* consume(1): the answer and the bucket it leaves
consume(b, t) ==
    LET r == refill(b, t) IN
    IF r.tokens >= r.rate_den
    THEN [allowed |-> TRUE, bucket |-> [r EXCEPT !.tokens = r.tokens - r.rate_den]]
    ELSE [allowed |-> FALSE, bucket |-> r]

check_rate_limit(rl, identifier, limit_type, capacity, rate_num, rate_den, t) ==
    LET key == <<limit_type, identifier>>
        bucket == IF key \in DOMAIN rl THEN rl[key]
                  ELSE [capacity |-> capacity, tokens |-> capacity * rate_den,
                        rate_num |-> rate_num, rate_den |-> rate_den,
                        last_refill |-> t]
        c == consume(bucket, t)
    IN [allowed |-> c.allowed,
        rate_limits |-> [k \in DOMAIN rl \cup {key} |->
                            IF k = key THEN c.bucket ELSE rl[k]]]

check_ip_rate_limit(rl, ip, t) ==
    check_rate_limit(rl, ip, "ip", RATE_LIMIT_PER_IP,
                     RATE_LIMIT_PER_IP, RATE_REFILL_PERIOD, t)

check_user_rate_limit(rl, username, user_limit, t) ==
    LET limit == IF user_limit # 0 THEN user_limit ELSE RATE_LIMIT_PER_USER
    IN check_rate_limit(rl, username, "user", limit, limit, RATE_REFILL_PERIOD, t)

\* check_blacklist over the arguments that are set
check_blacklist(bl, targets) ==
    \E x \in targets : x # None /\ x # "" /\ x \in bl

\* ------------------------------------------------------------------------
\* Message / QueuedMessage / QueueService
\* ------------------------------------------------------------------------
SeqToSet(s) == {s[i] : i \in 1..Len(s)}

validate(sender, recipients, data) ==
    /\ sender # "" /\ sender # None
    /\ recipients # <<>>
    /\ data # <<>>

\* QueuedMessage as the repository stores it at enqueue
NewQueuedMessage(sender, recipients, data, session_info, t) ==
    [sender |-> sender, recipients |-> recipients, data |-> data,
     session_info |-> session_info, status |-> "active", created_at |-> t,
     next_retry_at |-> NoTime, attempts |-> 0, last_error |-> 0,
     recipient_status |-> [r \in SeqToSet(recipients) |-> "pending"]]

\* os.linesep of the host
os_linesep == <<LF>>

\* Path.write_text / Path.read_text open the file in text mode with
\* newline=None: writing turns "\n" into os.linesep, reading turns "\r\n"
\* and "\r" into "\n"
RECURSIVE text_write(_)
text_write(chars) ==
    IF chars = <<>> THEN <<>>
    ELSE (IF Head(chars) = LF THEN os_linesep ELSE <<Head(chars)>>)
         \o text_write(Tail(chars))

RECURSIVE text_read(_)
text_read(chars) ==
    IF chars = <<>> THEN <<>>
    ELSE IF Head(chars) = CR /\ Len(chars) >= 2 /\ chars[2] = LF
    THEN <<LF>> \o text_read(Tail(Tail(chars)))
    ELSE IF Head(chars) = CR THEN <<LF>> \o text_read(Tail(chars))
    ELSE <<Head(chars)>> \o text_read(Tail(chars))

\* message data is the Received header (kept whole) followed by the characters
\* of the body
write_text(data) == IF data = <<>> THEN data ELSE <<Head(data)>> \o text_write(Tail(data))

read_text(data) == IF data = <<>> THEN data ELSE <<Head(data)>> \o text_read(Tail(data))

\* QueueRepository.enqueue: the row and the message file
enqueue(q, id, msg) ==
    [k \in DOMAIN q \cup {id} |->
        IF k = id THEN [msg EXCEPT !.data = write_text(@)] ELSE q[k]]

_row_to_queued_message(row) == [row EXCEPT !.data = read_text(@)]

\* find_by_id on a stored queue id
find_by_id(q, id) == _row_to_queued_message(q[id])

pending_recipients(m) ==
    {r \in DOMAIN m.recipient_status : m.recipient_status[r] \in {"pending", "deferred"}}

is_expired_never(m, max_age, t) == FALSE

is_expired(m, max_age, t) == (t - m.created_at) > max_age

all_delivered(m) ==
    \A r \in DOMAIN m.recipient_status : m.recipient_status[r] = "delivered"

\* random.random() is in [0, 1): the jitter factor (random - 0.5) * 2 is
\* given in percent, jitter_pct \in -100..99
_calculate_next_retry(attempts, jitter_pct, t) ==
    IF attempts >= Len(RETRY_SCHEDULE) THEN NoTime
    ELSE LET delay == RETRY_SCHEDULE[attempts + 1]
             jitter == (delay * 2 * jitter_pct) \div 1000
         IN t + delay + jitter

\* update_delivery_status on the message find_by_id returned: the message
\* handed to queue_repo.update
update_delivery_status(m, recipient, smtp_code, jitter_pct, t) ==
    LET rs == IF recipient \in DOMAIN m.recipient_status
              THEN [m.recipient_status EXCEPT ![recipient] =
                      IF 200 <= smtp_code /\ smtp_code < 300 THEN "delivered"
                      ELSE IF 400 <= smtp_code /\ smtp_code < 500 THEN "deferred"
                      ELSE IF 500 <= smtp_code /\ smtp_code < 600 THEN "bounce"
                      ELSE @]
              ELSE m.recipient_status
        m1 == [m EXCEPT !.recipient_status = rs, !.attempts = @ + 1,
                        !.last_error = smtp_code]
        m2 == IF pending_recipients(m1) # {}
              THEN [m1 EXCEPT !.next_retry_at =
                                  _calculate_next_retry(m1.attempts, jitter_pct, t),
                              !.status = "deferred"]
              ELSE [m1 EXCEPT !.status = IF all_delivered(m1) THEN "delivered"
                                         ELSE "bounce"]
    IN IF is_expired(m2, MAX_QUEUE_AGE, t) THEN [m2 EXCEPT !.status = "bounce"]
       ELSE m2

RECURSIVE dedup(_, _)
dedup(s, seen) ==
    IF s = <<>> THEN <<>>
    ELSE IF Head(s) \in seen THEN dedup(Tail(s), seen)
    ELSE <<Head(s)>> \o dedup(Tail(s), seen \cup {Head(s)})

\* pending_recipients as the list the code iterates: the dict keeps the
\* order in which the recipients were inserted.
pending_list(m) ==
    SelectSeq(dedup(m.recipients, {}),
              LAMBDA r : m.recipient_status[r] \in {"pending", "deferred"})

RECURSIVE SortByCreated(_, _)
SortByCreated(q, ids) ==
    IF ids = {} THEN <<>>
    ELSE LET first == CHOOSE id \in ids : \A o \in ids :
                          \/ q[id].created_at < q[o].created_at
                          \/ (q[id].created_at = q[o].created_at /\ id <= o)
         IN <<first>> \o SortByCreated(q, ids \ {first})

Workers == {1, 2}
Domains == {DomainOf(r) : r \in Recipients}
QueueIds == 1..MaxQueue
WorkerTicks == {MAX_QUEUE_AGE + 1}
IdleWorker == [pc |-> "idle", batch |-> <<>>, domains |-> <<>>,
               rcpts |-> <<>>, code |-> 0]

requeue_resets_every_recipient(m) ==
    [m EXCEPT !.next_retry_at = NoTime, !.status = "active",
              !.recipient_status = [r \in DOMAIN @ |-> "pending"]]

requeue_message(m) ==
    [m EXCEPT !.next_retry_at = NoTime, !.status = "active",
              !.recipient_status =
                  [r \in DOMAIN @ |-> IF @[r] \in {"deferred", "bounce"}
                                      THEN "pending" ELSE @[r]]]

\* ------------------------------------------------------------------------
\* SMTPSession
\* ------------------------------------------------------------------------
NewSession(is_submission, peer_ip) ==
    [state |-> "INITIAL", is_submission |-> is_submission, peer_ip |-> peer_ip,
     helo_name |-> None, esmtp |-> FALSE, tls_active |-> FALSE,
     authenticated_user |-> None, mail_from |-> None, rcpt_to |-> <<>>,
     error_count |-> 0, unknown_command_count |-> 0, queue_id |-> 0]

is_authenticated(s) == s.authenticated_user # None

requires_auth_never(s) == FALSE

requires_auth(s) == s.is_submission /\ AUTH_REQUIRED_SUBMISSION

requires_tls(s) == s.is_submission /\ TLS_REQUIRED_ON_SUBMISSION

reset_envelope(s) ==
    [s EXCEPT !.mail_from = None, !.rcpt_to = <<>>,
              !.state = IF s.state \in {"MAIL", "RCPT", "DATA"}
                        THEN "GREETED" ELSE s.state]

\* _generate_received_header; queue_id 0 prints as 'unknown'
_generate_received_header(s) ==
    [from_part |-> s.helo_name, peer_ip |-> s.peer_ip,
     with_part |-> (IF s.tls_active THEN "ESMTPS" ELSE "ESMTP")
                   \o (IF s.authenticated_user # None THEN "A" ELSE ""),
     id_part |-> s.queue_id,
     for_part |-> IF Len(s.rcpt_to) = 1 THEN s.rcpt_to[1] ELSE ""]

\* line_str.rstrip('\r\n')
RECURSIVE rstrip_crlf(_)
rstrip_crlf(line) ==
    IF line # <<>> /\ line[Len(line)] \in {CR, LF}
    THEN rstrip_crlf(SubSeq(line, 1, Len(line) - 1))
    ELSE line

\* the read loop of _handle_DATA over the lines the client sends
RECURSIVE ReadData(_, _, _, _)
ReadData(lines, i, message_lines, total_size) ==
    IF i > Len(lines) THEN [outcome |-> "eof", lines |-> message_lines]
    ELSE IF rstrip_crlf(lines[i]) = <<".">>
    THEN [outcome |-> "end", lines |-> message_lines]
    ELSE LET line_str == IF Len(lines[i]) >= 2 /\ lines[i][1] = "." /\ lines[i][2] = "."
                         THEN Tail(lines[i]) ELSE lines[i]
             size == total_size + Len(line_str)
         IN IF size > SMTP_MAX_MESSAGE_SIZE
            THEN [outcome |-> "oversize", lines |-> Append(message_lines, line_str)]
            ELSE ReadData(lines, i + 1, Append(message_lines, line_str), size)

\* ------------------------------------------------------------------------
\* History kept for the properties: what the client has been told
\* ------------------------------------------------------------------------
NewGhost == [helo_accepted |-> FALSE, mail_accepted |-> FALSE,
             rcpt_accepted |-> FALSE, txn_rcpts |-> <<>>, helo_due |-> FALSE]

EndTransaction(g) ==
    [g EXCEPT !.mail_accepted = FALSE, !.rcpt_accepted = FALSE, !.txn_rcpts = <<>>]

Last(s) == s[Len(s)]

GhostNext(cmd, address, g, rs) ==
    CASE cmd \in {"HELO", "EHLO"} /\ Last(rs) = CODE_OK ->
            EndTransaction([g EXCEPT !.helo_accepted = TRUE, !.helo_due = FALSE])
      [] cmd = "MAIL" /\ Last(rs) = CODE_OK ->
            [g EXCEPT !.mail_accepted = TRUE, !.rcpt_accepted = FALSE,
                      !.txn_rcpts = <<>>]
      [] cmd = "RCPT" /\ Last(rs) = CODE_OK ->
            [g EXCEPT !.rcpt_accepted = TRUE,
                      !.txn_rcpts = Append(g.txn_rcpts, address)]
      [] cmd = "RSET" /\ Last(rs) = CODE_OK -> EndTransaction(g)
      [] cmd = "STARTTLS" /\ rs = <<CODE_READY>> ->
            EndTransaction([g EXCEPT !.helo_due = TRUE])
      [] cmd = "DATA" /\ Len(rs) = 2 /\ Last(rs) \in {CODE_OK, CODE_LOCAL_ERROR} ->
            EndTransaction(g)
      [] OTHER -> g

\* one command of the session loop: the handler, then the record of it
Observe(cmd, address) ==
    /\ obs' = [cmd |-> cmd, address |-> address]
    /\ ghost' = GhostNext(cmd, address, ghost, replies')

\* handle_session's loop is running; sessions are explored until the queue
\* holds MaxQueue messages
Running == conn = "open" /\ session.state # "QUIT" /\ ids_issued < MaxQueue

\* ------------------------------------------------------------------------
\* handle_session: connection set-up and tear-down
\* ------------------------------------------------------------------------
Connect(is_submission, peer_ip) ==
    /\ conn = "closed"
    /\ session' = NewSession(is_submission, peer_ip)
    /\ conn' = "open"
    /\ replies' = <<CODE_READY>>
    /\ obs' = [cmd |-> "CONNECT", address |-> ""]
    /\ ghost' = NewGhost
    /\ UNCHANGED <<stores, now, auth_log, rate_log, call, delivery_vars>>

\* the client closes the connection: readline returns b''
Disconnect ==
    /\ Running
    /\ conn' = "closed"
    /\ replies' = <<>>
    /\ obs' = [cmd |-> "EOF", address |-> ""]
    /\ UNCHANGED <<session, ghost, stores, now, auth_log, rate_log, call, delivery_vars>>

\* ------------------------------------------------------------------------
\* Command handlers
\* ------------------------------------------------------------------------
_handle_HELO(args) ==
    /\ Running
    /\ IF args = ""
       THEN /\ replies' = <<CODE_SYNTAX_ERROR_PARAM>>
            /\ session' = session
       ELSE /\ session' = reset_envelope([session EXCEPT !.helo_name = args,
                                            !.esmtp = FALSE, !.state = "GREETED"])
            /\ replies' = <<CODE_OK>>
    /\ UNCHANGED <<conn, stores, now, auth_log, rate_log, call, delivery_vars>>
    /\ Observe("HELO", "")

_handle_EHLO(args) ==
    /\ Running
    /\ IF args = ""
       THEN /\ replies' = <<CODE_SYNTAX_ERROR_PARAM>>
            /\ session' = session
       ELSE /\ session' = reset_envelope([session EXCEPT !.helo_name = args,
                                            !.esmtp = TRUE, !.state = "GREETED"])
            /\ replies' = <<CODE_OK>>
    /\ UNCHANGED <<conn, stores, now, auth_log, rate_log, call, delivery_vars>>
    /\ Observe("EHLO", "")

\* tls_ok: whether start_tls completes
_handle_STARTTLS(args, tls_ok) ==
    /\ Running
    /\ IF session.tls_active
       THEN replies' = <<CODE_BAD_SEQUENCE>> /\ session' = session
       ELSE IF args # ""
       THEN replies' = <<CODE_SYNTAX_ERROR_PARAM>> /\ session' = session
       ELSE IF tls_ok
       THEN /\ session' = [session EXCEPT !.tls_active = TRUE, !.state = "INITIAL"]
            /\ replies' = <<CODE_READY>>
       ELSE /\ session' = session
            /\ replies' = <<CODE_READY, CODE_LOCAL_ERROR>>
    /\ UNCHANGED <<conn, stores, now, auth_log, rate_log, call, delivery_vars>>
    /\ Observe("STARTTLS", "")

\* the argument of AUTH: the mechanism word ("" when missing), whether an
\* initial response follows it, how the credentials line decodes, and the
\* credentials it carries
AuthArgs ==
    {a \in [mechanism : {"", "PLAIN", "LOGIN", "CRAM-MD5"}, initial : BOOLEAN,
            encoding : {"ok", "badbase64", "badutf8"},
            username : Usernames, password : Passwords] :
        /\ a.mechanism \in {"", "CRAM-MD5"} =>
              (~a.initial /\ a.encoding = "ok" /\ a.username = "u" /\ a.password = "p")
        /\ a.encoding # "ok" => (a.username = "u" /\ a.password = "p")
        /\ a.mechanism = "LOGIN" => ~a.initial}

\* _handle_AUTH_PLAIN / _handle_AUTH_LOGIN once the mechanism is chosen
AuthExchange(a) ==
    LET prompts == IF a.mechanism = "LOGIN" THEN <<CODE_AUTH_CONTINUE, CODE_AUTH_CONTINUE>>
                   ELSE IF a.initial THEN <<>> ELSE <<CODE_AUTH_CONTINUE>>
        res == authenticate(auth, users, a.username, a.password, session.peer_ip, now)
    IN IF a.mechanism = "PLAIN" /\ ~a.initial /\ a.encoding = "badutf8"
       THEN \* response.decode raises outside the try: handle_session counts it
            /\ session' = [session EXCEPT !.error_count = @ + 1]
            /\ IF session.error_count + 1 >= SMTP_MAX_ERRORS
               THEN replies' = prompts \o <<CODE_SERVICE_NOT_AVAILABLE>> /\ conn' = "closed"
               ELSE replies' = prompts /\ conn' = conn
            /\ auth' = auth
       ELSE IF a.encoding # "ok"
       THEN /\ replies' = prompts \o <<CODE_AUTH_FAILED>>
            /\ UNCHANGED <<session, conn, auth>>
       ELSE /\ auth' = res.auth
            /\ conn' = conn
            /\ IF res.user # None
               THEN /\ session' = [session EXCEPT !.authenticated_user = a.username,
                                                  !.state = "AUTHENTICATED"]
                    /\ replies' = prompts \o <<CODE_AUTH_SUCCESS>>
               ELSE /\ session' = session
                    /\ replies' = prompts \o <<CODE_AUTH_FAILED>>

_handle_AUTH(a) ==
    /\ Running
    /\ IF ~session.esmtp
       THEN replies' = <<CODE_BAD_SEQUENCE>> /\ UNCHANGED <<session, conn, auth>>
       ELSE IF is_authenticated(session)
       THEN replies' = <<CODE_BAD_SEQUENCE>> /\ UNCHANGED <<session, conn, auth>>
       ELSE IF requires_tls(session) /\ ~session.tls_active
       THEN replies' = <<CODE_SYNTAX_ERROR>> /\ UNCHANGED <<session, conn, auth>>
       ELSE IF a.mechanism = ""
       THEN replies' = <<CODE_SYNTAX_ERROR_PARAM>> /\ UNCHANGED <<session, conn, auth>>
       ELSE IF a.mechanism \in {"PLAIN", "LOGIN"}
       THEN AuthExchange(a)
       ELSE replies' = <<CODE_PARAM_NOT_IMPLEMENTED>> /\ UNCHANGED <<session, conn, auth>>
    /\ UNCHANGED <<users, blacklist, greylist, rate_limits, queue, ids_issued, now, auth_log, rate_log, call, delivery_vars>>
    /\ Observe("AUTH", "")

\* the rate-limit step of _handle_MAIL: the authenticated user's bucket when the
\* user record exists, no check when it does not, else the peer's bucket
MailRateCheck(s) ==
    IF s.authenticated_user # None
    THEN IF s.authenticated_user \in DOMAIN users
         THEN check_user_rate_limit(rate_limits, s.authenticated_user,
                                    users[s.authenticated_user].rate_limit, now)
         ELSE [allowed |-> TRUE, rate_limits |-> rate_limits]
    ELSE check_ip_rate_limit(rate_limits, s.peer_ip, now)

_handle_MAIL(args) ==
    /\ Running
    /\ IF session.state \notin {"GREETED", "AUTHENTICATED"}
       THEN replies' = <<CODE_BAD_SEQUENCE>> /\ UNCHANGED <<session, rate_limits>>
       ELSE IF requires_auth(session) /\ ~is_authenticated(session)
       THEN replies' = <<CODE_AUTH_REQUIRED>> /\ UNCHANGED <<session, rate_limits>>
       ELSE IF ~args.prefix
       THEN replies' = <<CODE_SYNTAX_ERROR_PARAM>> /\ UNCHANGED <<session, rate_limits>>
       ELSE IF ~EmailMatch(args.address) /\ args.address # "<>"
       THEN replies' = <<CODE_SYNTAX_ERROR_PARAM>> /\ UNCHANGED <<session, rate_limits>>
       ELSE LET sender == IF EmailMatch(args.address) THEN args.address ELSE ""
                sender_domain == IF sender # "" THEN DomainOf(sender) ELSE None
                rate == MailRateCheck(session)
            IN IF check_blacklist(blacklist, {session.peer_ip, sender_domain, sender})
               THEN replies' = <<CODE_MAILBOX_NOT_FOUND>> /\ UNCHANGED <<session, rate_limits>>
               ELSE /\ rate_limits' = rate.rate_limits
                    /\ IF ~rate.allowed
                       THEN replies' = <<CODE_MAILBOX_UNAVAILABLE>> /\ session' = session
                       ELSE /\ session' = [session EXCEPT !.mail_from = sender,
                                                          !.state = "MAIL"]
                            /\ replies' = <<CODE_OK>>
    /\ UNCHANGED <<conn, auth, users, blacklist, greylist, queue, ids_issued, now, auth_log, rate_log, call, delivery_vars>>
    /\ Observe("MAIL", args.address)

\* the state check that opens _handle_RCPT
RcptAnyState(s) == TRUE

RcptInSequence(s) == s.state \in {"MAIL", "RCPT"}

\* GREYLIST_ENABLED is False by default: _handle_RCPT skips check_greylist
_handle_RCPT(args) ==
    /\ Running
    /\ IF ~RcptInSequence(session)
       THEN replies' = <<CODE_BAD_SEQUENCE>> /\ session' = session
       ELSE IF ~args.prefix
       THEN replies' = <<CODE_SYNTAX_ERROR_PARAM>> /\ session' = session
       ELSE IF Len(session.rcpt_to) >= SMTP_MAX_RECIPIENTS
       THEN replies' = <<CODE_EXCEEDED_STORAGE>> /\ session' = session
       ELSE IF ~EmailMatch(args.address)
       THEN replies' = <<CODE_SYNTAX_ERROR_PARAM>> /\ session' = session
       ELSE IF check_blacklist(blacklist, {DomainOf(args.address), args.address})
       THEN replies' = <<CODE_MAILBOX_NOT_FOUND>> /\ session' = session
       ELSE /\ session' = [session EXCEPT !.rcpt_to = Append(@, args.address),
                                          !.state = "RCPT"]
            /\ replies' = <<CODE_OK>>
    /\ UNCHANGED <<conn, stores, now, auth_log, rate_log, call, delivery_vars>>
    /\ Observe("RCPT", args.address)

\* the part of _handle_DATA after the read loop ended on the "." line:
\* Received header, enqueue_message, reply, reset_envelope
DataEnqueue(message_lines) ==
    LET data == <<_generate_received_header(session)>> \o join(message_lines)
        id == ids_issued + 1
        session_info == [peer_ip |-> session.peer_ip, helo_name |-> session.helo_name,
                         authenticated_user |-> session.authenticated_user,
                         tls_active |-> session.tls_active]
    IN IF validate(session.mail_from, session.rcpt_to, data)
       THEN /\ queue' = enqueue(queue, id, NewQueuedMessage(session.mail_from,
                                    session.rcpt_to, data, session_info, now))
            /\ ids_issued' = id
            /\ session' = reset_envelope([session EXCEPT !.queue_id = id])
            /\ replies' = <<CODE_START_MAIL, CODE_OK>>
       ELSE /\ session' = reset_envelope(session)
            /\ replies' = <<CODE_START_MAIL, CODE_LOCAL_ERROR>>
            /\ UNCHANGED <<queue, ids_issued>>

_handle_DATA(args, body) ==
    /\ Running
    /\ IF session.state # "RCPT"
       THEN /\ replies' = <<CODE_BAD_SEQUENCE>>
            /\ UNCHANGED <<session, conn, queue, ids_issued>>
       ELSE IF args # ""
       THEN /\ replies' = <<CODE_SYNTAX_ERROR_PARAM>>
            /\ UNCHANGED <<session, conn, queue, ids_issued>>
       ELSE LET read == ReadData(body, 1, <<>>, 0) IN
            CASE read.outcome = "eof" ->
                    \* "Connection lost during DATA": the next readline ends the loop
                    /\ replies' = <<CODE_START_MAIL, CODE_LOCAL_ERROR>>
                    /\ conn' = "closed"
                    /\ UNCHANGED <<session, queue, ids_issued>>
              [] read.outcome = "oversize" ->
                    /\ replies' = <<CODE_START_MAIL, CODE_EXCEEDED_STORAGE>>
                    /\ UNCHANGED <<session, conn, queue, ids_issued>>
              [] OTHER ->
                    /\ DataEnqueue(read.lines)
                    /\ conn' = conn
    /\ UNCHANGED <<auth, users, blacklist, greylist, rate_limits, now, auth_log, rate_log, call, delivery_vars>>
    /\ Observe("DATA", "")

_handle_RSET ==
    /\ Running
    /\ session' = reset_envelope(session)
    /\ replies' = <<CODE_OK>>
    /\ UNCHANGED <<conn, stores, now, auth_log, rate_log, call, delivery_vars>>
    /\ Observe("RSET", "")

_handle_NOOP ==
    /\ Running
    /\ replies' = <<CODE_OK>>
    /\ UNCHANGED <<session, conn, stores, now, auth_log, rate_log, call, delivery_vars>>
    /\ Observe("NOOP", "")

\* the loop of handle_session ends on state QUIT and the writer is closed
_handle_QUIT ==
    /\ Running
    /\ session' = [session EXCEPT !.state = "QUIT"]
    /\ replies' = <<CODE_CLOSING>>
    /\ conn' = "closed"
    /\ UNCHANGED <<stores, now, auth_log, rate_log, call, delivery_vars>>
    /\ Observe("QUIT", "")

\* VRFY and EXPN share the reply
_handle_VRFY ==
    /\ Running
    /\ replies' = <<CODE_CANNOT_VRFY>>
    /\ UNCHANGED <<session, conn, stores, now, auth_log, rate_log, call, delivery_vars>>
    /\ Observe("VRFY", "")

_handle_HELP ==
    /\ Running
    /\ replies' = <<CODE_HELP>>
    /\ UNCHANGED <<session, conn, stores, now, auth_log, rate_log, call, delivery_vars>>
    /\ Observe("HELP", "")

\* _handle_command on a line that is empty or whose first word is no command
_handle_command(empty) ==
    /\ Running
    /\ IF empty
       THEN replies' = <<CODE_SYNTAX_ERROR>> /\ UNCHANGED <<session, conn>>
       ELSE /\ IF session.unknown_command_count + 1 >= SMTP_MAX_UNKNOWN_COMMANDS
               THEN /\ session' = [session EXCEPT !.unknown_command_count = @ + 1,
                                                  !.state = "QUIT"]
                    /\ replies' = <<CODE_NOT_IMPLEMENTED, CODE_SERVICE_NOT_AVAILABLE>>
                    /\ conn' = "closed"
               ELSE /\ session' = [session EXCEPT !.unknown_command_count = @ + 1]
                    /\ replies' = <<CODE_NOT_IMPLEMENTED>>
                    /\ conn' = conn
    /\ UNCHANGED <<stores, now, auth_log, rate_log, call, delivery_vars>>
    /\ Observe("UNKNOWN", "")

\* The peer sends nothing for SMTP_TIMEOUT seconds while the session waits in
\* one of its reads.  The command read of handle_session is wrapped in
\* asyncio.wait_for: the session replies 421 and ends.  The continuation
\* reads of AUTH and the line reads of DATA call reader.readline() bare: the
\* handler stays in the read (conn = "reading") for as long as the peer is
\* silent.
PeerSilent(read) ==
    /\ Running
    /\ CASE read = "command" ->
              /\ replies' = <<CODE_SERVICE_NOT_AVAILABLE>>
              /\ conn' = "closed"
         [] read = "auth" ->
              /\ session.esmtp
              /\ ~is_authenticated(session)
              /\ ~(requires_tls(session) /\ ~session.tls_active)
              /\ replies' = <<CODE_AUTH_CONTINUE>>
              /\ conn' = "reading"
         [] read = "data" ->
              /\ session.state = "RCPT"
              /\ replies' = <<CODE_START_MAIL>>
              /\ conn' = "reading"
    /\ obs' = [cmd |-> "TIMEOUT", address |-> read]
    /\ UNCHANGED <<session, ghost, stores, now, auth_log, rate_log, call, delivery_vars>>

\* ------------------------------------------------------------------------
\* The state after construction
\* ------------------------------------------------------------------------
InitialUsers ==
    [n \in {"u", "d"} |->
        [password_hash |-> hash_password("p"), enabled |-> (n = "u"),
         rate_limit |-> IF n = "u" THEN 1 ELSE 0]]

Init ==
    /\ session = NewSession(FALSE, "192.0.2.1")
    /\ conn = "closed"
    /\ replies = <<>>
    /\ obs = [cmd |-> "NONE", address |-> ""]
    /\ ghost = NewGhost
    /\ auth = [failed_attempts |-> [ip \in IPs |-> <<>>],
               locked_ips |-> [ip \in IPs |-> NoTime]]
    /\ users = InitialUsers
    /\ blacklist = {"bl.example"}
    /\ greylist = <<>>
    /\ rate_limits = <<>>
    /\ queue = <<>>
    /\ ids_issued = 0
    /\ now = 0
    /\ auth_log = [ip \in IPs |-> [failures |-> <<>>, user |-> None,
                                       locked |-> FALSE, failed_before |-> 0]]
    /\ rate_log = <<>>
    /\ workers = [w \in Workers |-> IdleWorker]
    /\ domain_connections = [d \in Domains |-> 0]
    /\ delivery_log = [calls |-> [id \in QueueIds |-> 0],
                       last |-> [id \in QueueIds |-> [r \in Recipients |-> 0]],
                       by |-> [id \in QueueIds |-> [r \in Recipients |-> 0]],
                       handled |-> {},
                       deleted |-> {},
                       late |-> {},
                       cancelled |-> {},
                       terminal |-> {}]
    /\ call = [op |-> "none"]

\* ------------------------------------------------------------------------
\* The SMTP reception state machine
\* ------------------------------------------------------------------------
Next ==
    \/ \E sub \in BOOLEAN, ip \in IPs : Connect(sub, ip)
    \/ Disconnect
    \/ \E a \in HeloArgs : _handle_HELO(a)
    \/ \E a \in HeloArgs : _handle_EHLO(a)
    \/ \E a \in {"", "x"}, ok \in BOOLEAN : _handle_STARTTLS(a, ok)
    \/ \E a \in AuthArgs : _handle_AUTH(a)
    \/ \E a \in MailArgs : _handle_MAIL(a)
    \/ \E a \in RcptArgs : _handle_RCPT(a)
    \/ \E a \in {"", "x"}, b \in Bodies : _handle_DATA(a, b)
    \/ _handle_RSET
    \/ _handle_NOOP
    \/ _handle_QUIT
    \/ _handle_VRFY
    \/ _handle_HELP
    \/ \E e \in BOOLEAN : _handle_command(e)
    \/ \E read \in {"command", "auth", "data"} : PeerSilent(read)

Spec == Init /\ [][Next]_vars

\* ------------------------------------------------------------------------
\* time.time() advancing between calls
\* ------------------------------------------------------------------------
Tick(d, max) ==
    /\ now + d <= max
    /\ now' = now + d
    /\ UNCHANGED <<smtp_vars, stores, auth_log, rate_log, call, delivery_vars>>

\* ------------------------------------------------------------------------
\* AuthService.authenticate called by any connection of a peer
\* ------------------------------------------------------------------------
LastN(s, n) == IF Len(s) <= n THEN s ELSE SubSeq(s, Len(s) - n + 1, Len(s))

\* auth_log[ip]: the instants of the calls from ip whose credentials were
\* checked and refused since its last success (the last AUTH_MAX_FAILURES of
\* them), the answer of the last call, and how many of those instants lay
\* within AUTH_LOCKOUT_DURATION of it
Authenticate(username, password, ip) ==
    LET locked == _is_locked(auth, ip, now).locked
        res == authenticate(auth, users, username, password, ip, now)
        log == auth_log[ip]
        recent == SelectSeq(log.failures,
                            LAMBDA ts : now - ts < AUTH_LOCKOUT_DURATION)
    IN /\ auth' = res.auth
       /\ auth_log' = [auth_log EXCEPT ![ip] =
              [failures |-> IF res.user # None THEN <<>>
                            ELSE IF locked THEN log.failures
                            ELSE LastN(Append(log.failures, now), AUTH_MAX_FAILURES),
               user |-> res.user,
               locked |-> locked,
               failed_before |-> Len(recent)]]
       /\ UNCHANGED <<smtp_vars, users, blacklist, greylist, rate_limits, queue,
                      ids_issued, now, rate_log, call, delivery_vars>>

AuthTicks == {AUTH_LOCKOUT_DURATION \div 3, 2 * (AUTH_LOCKOUT_DURATION \div 3)}

\* UserRepository.save stores the record under its username, whether or not
\* the username is already there
save(us, username, user) ==
    [n \in DOMAIN us \cup {username} |-> IF n = username THEN user ELSE us[n]]

\* AuthService.create_user: User.create followed by save; it returns the user
create_user(us, username, password) ==
    save(us, username, [password_hash |-> hash_password(password),
                        enabled |-> TRUE, rate_limit |-> USER_RATE_LIMIT])

CreateUser(username, password) ==
    /\ users' = create_user(users, username, password)
    /\ UNCHANGED <<smtp_vars, auth, blacklist, greylist, rate_limits, queue, ids_issued,
                   now, auth_log, rate_log, call, delivery_vars>>

NextAuth ==
    \/ \E n \in Usernames, p \in Passwords, ip \in IPs : Authenticate(n, p, ip)
    \/ \E d \in AuthTicks : Tick(d, MaxAuthTime)
    \/ \E n \in Usernames, p \in Passwords : CreateUser(n, p)

SpecAuth == Init /\ [][NextAuth]_vars

\* ------------------------------------------------------------------------
\* A session receiving MAIL while the admin API deletes users
\* ------------------------------------------------------------------------
\* UserRepository.delete removes the record when the username is stored
delete(us, username) == [n \in DOMAIN us \ {username} |-> us[n]]

\* AuthService.delete_user, called by DELETE /api/users/<username>
delete_user(username) ==
    /\ users' = delete(users, username)
    /\ UNCHANGED <<smtp_vars, auth, blacklist, greylist, rate_limits, queue, ids_issued,
                   now, auth_log, rate_log, call, delivery_vars>>

NextMail ==
    \/ \E sub \in BOOLEAN, ip \in IPs : Connect(sub, ip)
    \/ \E a \in HeloArgs : _handle_EHLO(a)
    \/ \E a \in AuthArgs : _handle_AUTH(a)
    \/ \E a \in MailArgs : _handle_MAIL(a)
    \/ _handle_RSET
    \/ _handle_QUIT
    \/ \E n \in Usernames : delete_user(n)

SpecMail == Init /\ [][NextMail]_vars

\* ------------------------------------------------------------------------
\* PolicyService.check_greylist
\* ------------------------------------------------------------------------
Triplets == {"u@c.example:r1@d.example:192.0.2.1",
             "u@c.example:r2@e.example:192.0.2.1"}

NewGreylistEntry(t) ==
    [first_seen |-> t, last_seen |-> t, attempts |-> 1, passed |-> FALSE]

should_defer(e, min_delay, max_age, t) ==
    LET age == t - e.first_seen IN
    IF age < min_delay THEN TRUE
    ELSE IF age > max_age THEN TRUE
    ELSE FALSE

\* GreylistEntry.update
touch(e, t) == [e EXCEPT !.last_seen = t, !.attempts = @ + 1]

mark_passed(e, t) == [e EXCEPT !.passed = TRUE, !.last_seen = t]

save_greylist_entry(gl, triplet, e) ==
    [k \in DOMAIN gl \cup {triplet} |-> IF k = triplet THEN e ELSE gl[k]]

\* check_greylist: the outcome and the entries it leaves.  config.py has
\* GREYLIST_DELAY but neither GREYLIST_MIN_DELAY nor GREYLIST_MAX_AGE, so the
\* lookup of the window raises AttributeError on a known triplet, before
\* anything is saved; has_window is whether the running configuration carries
\* the two attributes.
check_greylist(gl, triplet, has_window, t) ==
    IF triplet \notin DOMAIN gl
    THEN [outcome |-> "deferred",
          greylist |-> save_greylist_entry(gl, triplet, NewGreylistEntry(t))]
    ELSE LET e == touch(gl[triplet], t) IN
         IF ~has_window THEN [outcome |-> "raised", greylist |-> gl]
         ELSE IF should_defer(e, GREYLIST_MIN_DELAY, GREYLIST_MAX_AGE, t)
         THEN [outcome |-> "deferred",
               greylist |-> save_greylist_entry(gl, triplet, e)]
         ELSE [outcome |-> "passed",
               greylist |-> save_greylist_entry(gl, triplet, mark_passed(e, t))]

CheckGreylist(triplet, has_window) ==
    LET res == check_greylist(greylist, triplet, has_window, now) IN
    /\ triplet \in DOMAIN greylist => greylist[triplet].attempts < MaxGreylistChecks
    /\ greylist' = res.greylist
    /\ call' = [op |-> "check_greylist", triplet |-> triplet, at |-> now,
                outcome |-> res.outcome]
    /\ UNCHANGED <<smtp_vars, auth, users, blacklist, rate_limits, queue,
                   ids_issued, now, auth_log, rate_log, delivery_vars>>

\* half the window, and one second past it
GreylistTicks == {GREYLIST_MAX_AGE \div 2, GREYLIST_MAX_AGE + 1}

NextGreylist ==
    \/ \E tr \in Triplets, w \in BOOLEAN : CheckGreylist(tr, w)
    \/ \E d \in GreylistTicks : Tick(d, MaxGreylistTime)

SpecGreylist == Init /\ [][NextGreylist]_vars

\* ------------------------------------------------------------------------
\* PolicyService.check_rate_limit on one bucket
\* ------------------------------------------------------------------------
RateConfigs ==
    {[identifier |-> "a", capacity |-> 2, rate_num |-> 1, rate_den |-> 1],
     [identifier |-> "b", capacity |-> 3, rate_num |-> 1, rate_den |-> 2]}

CheckRateLimit(cfg) ==
    LET res == check_rate_limit(rate_limits, cfg.identifier, "ip", cfg.capacity,
                                cfg.rate_num, cfg.rate_den, now)
    IN /\ Len(rate_log) < MaxChecks
       /\ DOMAIN rate_limits \subseteq {<<"ip", cfg.identifier>>}
       /\ rate_limits' = res.rate_limits
       /\ rate_log' = Append(rate_log, [t |-> now, allowed |-> res.allowed])
       /\ UNCHANGED <<smtp_vars, auth, users, blacklist, greylist, queue, ids_issued,
                      now, auth_log, call, delivery_vars>>

NextRate ==
    \/ \E cfg \in RateConfigs : CheckRateLimit(cfg)
    \/ Tick(1, MaxRateTime)

SpecRate == Init /\ [][NextRate]_vars

\* ------------------------------------------------------------------------
\* QueueService driven by the delivery workers and the admin
\* ------------------------------------------------------------------------
SmtpCodes == {CODE_OK, CODE_LOCAL_ERROR, CODE_MAILBOX_NOT_FOUND}
JitterPercents == {0 - 100, 0, 99}
QueueTicks == {MAX_QUEUE_AGE, MAX_QUEUE_AGE + 1}

enqueue_message(sender, recipients, message_data) ==
    /\ ids_issued < MaxQueue
    /\ validate(sender, recipients, message_data)
    /\ queue' = enqueue(queue, ids_issued + 1,
                        NewQueuedMessage(sender, recipients, message_data, <<>>, now))
    /\ ids_issued' = ids_issued + 1
    /\ UNCHANGED <<smtp_vars, auth, users, blacklist, greylist, rate_limits, now,
                   auth_log, rate_log, call, delivery_vars>>

DeliveryOutcome(queue_id, recipient, smtp_code, jitter_pct) ==
    /\ queue_id \in DOMAIN queue
    /\ queue[queue_id].attempts < MaxAttempts
    /\ queue' = [queue EXCEPT ![queue_id] =
                    update_delivery_status(@, recipient, smtp_code, jitter_pct, now)]
    /\ UNCHANGED <<smtp_vars, auth, users, blacklist, greylist, rate_limits, ids_issued,
                   now, auth_log, rate_log, call, delivery_vars>>

\* requeue_message: False for a queue id find_by_id does not find, else the
\* reset message is written back and the answer is True
Requeue(queue_id) ==
    /\ IF queue_id \in DOMAIN queue
       THEN queue' = [queue EXCEPT ![queue_id] = requeue_message(@)]
       ELSE UNCHANGED queue
    /\ call' = [op |-> "requeue_message", queue_id |-> queue_id,
                result |-> queue_id \in DOMAIN queue]
    /\ UNCHANGED <<smtp_vars, auth, users, blacklist, greylist, rate_limits, ids_issued,
                   now, auth_log, rate_log, delivery_vars>>

NextQueue ==
    \/ \E rcpts \in {<<"r1@d.example">>, <<"r1@d.example", "r2@e.example">>} :
           enqueue_message("u@c.example", rcpts, <<"hi">>)
    \/ \E id \in QueueIds, r \in Recipients, c \in SmtpCodes, j \in JitterPercents :
           DeliveryOutcome(id, r, c, j)
    \/ \E id \in QueueIds : Requeue(id)
    \/ \E d \in QueueTicks : Tick(d, MaxQueueTime)

SpecQueue == Init /\ [][NextQueue]_vars

\* ------------------------------------------------------------------------
\* Delivery workers (DeliveryWorker._run, DeliveryService)
\*
\* Every worker is an asyncio task of one event loop, so a worker runs
\* alone from one suspension point to the next.  The suspension points of
\* a delivery are the executor calls of resolve_mx and attempt_delivery
\* (pc "sending") and asyncio.sleep (pc "idle").  The asyncio.Lock of
\* DeliveryService is never held across a suspension point, and the
\* repository calls are synchronous sqlite3 calls, so the gate of
\* deliver_to_domain and each update_delivery_status call are single steps.
\* ------------------------------------------------------------------------
find_ready_ignoring_retry(q, t, limit) ==
    LET ready == {id \in DOMAIN q : q[id].status \in {"active", "deferred"}}
        sorted == SortByCreated(q, ready)
    IN [i \in 1..Min(limit, Len(sorted)) |->
            [queue_id |-> sorted[i], message |-> find_by_id(q, sorted[i])]]

find_ready_for_delivery(q, t, limit) ==
    LET ready == {id \in DOMAIN q :
                     /\ q[id].status \in {"active", "deferred"}
                     /\ (q[id].next_retry_at = NoTime \/ q[id].next_retry_at <= t)}
        sorted == SortByCreated(q, ready)
    IN [i \in 1..Min(limit, Len(sorted)) |->
            [queue_id |-> sorted[i], message |-> find_by_id(q, sorted[i])]]

update_keeps_recipients(q, queue_id, m) ==
    [q EXCEPT ![queue_id] = [@ EXCEPT !.status = m.status,
                                      !.next_retry_at = m.next_retry_at,
                                      !.attempts = m.attempts,
                                      !.last_error = m.last_error]]

update(q, queue_id, m) ==
    [q EXCEPT ![queue_id] = [@ EXCEPT !.status = m.status,
                                      !.next_retry_at = m.next_retry_at,
                                      !.attempts = m.attempts,
                                      !.last_error = m.last_error,
                                      !.recipient_status = m.recipient_status]]

UpdateDeliveryStatusUpsert(q, queue_id, recipient, smtp_code, jitter_pct, t) ==
    IF queue_id \notin DOMAIN q
    THEN enqueue(q, queue_id,
                 update_delivery_status(
                     NewQueuedMessage("", <<recipient>>, <<>>, <<>>, t),
                     recipient, smtp_code, jitter_pct, t))
    ELSE update(q, queue_id,
                update_delivery_status(find_by_id(q, queue_id), recipient,
                                       smtp_code, jitter_pct, t))

UpdateDeliveryStatus(q, queue_id, recipient, smtp_code, jitter_pct, t) ==
    IF queue_id \notin DOMAIN q THEN q
    ELSE update(q, queue_id,
                update_delivery_status(find_by_id(q, queue_id), recipient,
                                       smtp_code, jitter_pct, t))

RECURSIVE recipients_by_domain(_, _)
recipients_by_domain(rcpts, acc) ==
    IF rcpts = <<>> THEN acc
    ELSE LET r == Head(rcpts)
             hit == {i \in 1..Len(acc) : acc[i].domain = DomainOf(r)}
         IN recipients_by_domain(Tail(rcpts),
                IF hit = {} THEN Append(acc, [domain |-> DomainOf(r),
                                              recipients |-> <<r>>])
                ELSE [acc EXCEPT ![CHOOSE i \in hit : TRUE].recipients =
                                     Append(@, r)])

Current(w) == Head(workers[w].batch)

Log(log, w, queue_id, recipient, smtp_code, batch_attempts) ==
    IF queue_id \notin DOMAIN queue
    THEN [log EXCEPT !.late = @ \cup {queue_id}]
    ELSE [calls |-> [log.calls EXCEPT ![queue_id] = @ + 1],
          last |-> [log.last EXCEPT ![queue_id][recipient] = smtp_code],
          by |-> [log.by EXCEPT ![queue_id][recipient] = w],
          handled |-> log.handled,
          deleted |-> log.deleted,
          late |-> log.late,
          cancelled |-> log.cancelled,
          terminal |-> IF smtp_code >= 400 /\ smtp_code < 500
                       THEN log.terminal
                       ELSE log.terminal \cup
                              {[queue_id |-> queue_id, recipient |-> recipient,
                                batch |-> batch_attempts,
                                delivered |-> smtp_code < 300]}]

Poll(w) ==
    LET messages == find_ready_for_delivery(queue, now, POLL_LIMIT)
    IN /\ workers[w].pc = "idle"
       /\ messages # <<>>
       /\ \A i \in 1..Len(messages) : messages[i].message.attempts < MaxWorkerAttempts
       /\ workers' = [workers EXCEPT ![w] =
              [IdleWorker EXCEPT !.pc = "deliver", !.batch = messages]]
       /\ UNCHANGED <<smtp_vars, stores, now, auth_log, rate_log, call,
                      domain_connections, delivery_log>>

deliver_message(w) ==
    /\ workers[w].pc = "deliver"
    /\ workers' = [workers EXCEPT ![w].pc = "gate",
                                  ![w].domains = recipients_by_domain(
                                      pending_list(Current(w).message), <<>>)]
    /\ UNCHANGED <<smtp_vars, stores, now, auth_log, rate_log, call,
                   domain_connections, delivery_log>>

NextMessage(wk) ==
    [IdleWorker EXCEPT !.batch = Tail(wk.batch),
                       !.pc = IF Tail(wk.batch) = <<>> THEN "idle" ELSE "deliver"]

MessageDone(w) ==
    /\ workers[w].pc = "gate"
    /\ workers[w].domains = <<>>
    /\ workers' = [workers EXCEPT ![w] = NextMessage(@)]
    /\ UNCHANGED <<smtp_vars, stores, now, auth_log, rate_log, call,
                   domain_connections, delivery_log>>

AtLimit_never(active) == FALSE

AtLimit(active) == active >= MAX_CONNECTIONS_PER_DOMAIN

deliver_to_domain(w) ==
    /\ workers[w].pc = "gate"
    /\ workers[w].domains # <<>>
    /\ LET d == Head(workers[w].domains)
       IN IF AtLimit(domain_connections[d.domain])
          THEN /\ workers' = [workers EXCEPT ![w].pc = "update",
                                            ![w].code = CODE_MAILBOX_UNAVAILABLE,
                                            ![w].rcpts = d.recipients]
               /\ UNCHANGED domain_connections
          ELSE /\ workers' = [workers EXCEPT ![w].pc = "sending"]
               /\ domain_connections' =
                      [domain_connections EXCEPT ![d.domain] = @ + 1]
    /\ UNCHANGED <<smtp_vars, stores, now, auth_log, rate_log, call, delivery_log>>

attempt_delivery(w, smtp_code) ==
    /\ workers[w].pc = "sending"
    /\ LET d == Head(workers[w].domains)
       IN /\ workers' = [workers EXCEPT ![w].pc = "update",
                                       ![w].code = smtp_code,
                                       ![w].rcpts = d.recipients]
          /\ domain_connections' =
                 [domain_connections EXCEPT ![d.domain] = @ - 1]
    /\ UNCHANGED <<smtp_vars, stores, now, auth_log, rate_log, call, delivery_log>>

ReportStatus(w, jitter_pct) ==
    /\ workers[w].pc = "update"
    /\ LET id == Current(w).queue_id
           r == Head(workers[w].rcpts)
           rest == Tail(workers[w].rcpts)
       IN /\ queue' = UpdateDeliveryStatus(queue, id, r, workers[w].code,
                                           jitter_pct, now)
          /\ delivery_log' = Log(delivery_log, w, id, r, workers[w].code,
                                 Current(w).message.attempts)
          /\ workers' = IF rest # <<>>
                        THEN [workers EXCEPT ![w].rcpts = rest]
                        ELSE [workers EXCEPT ![w].rcpts = <<>>,
                                             ![w].pc = "gate",
                                             ![w].domains = Tail(@)]
    /\ UNCHANGED <<smtp_vars, auth, users, blacklist, greylist, rate_limits, ids_issued,
                   now, auth_log, rate_log, call, domain_connections>>

WorkerError(w) ==
    /\ workers[w].pc \in {"sending", "update"}
    /\ workers' = [workers EXCEPT ![w].pc = "recover"]
    /\ domain_connections' =
           IF workers[w].pc = "sending"
           THEN [domain_connections EXCEPT
                    ![Head(workers[w].domains).domain] = @ - 1]
           ELSE domain_connections
    /\ UNCHANGED <<smtp_vars, stores, now, auth_log, rate_log, call, delivery_log>>

RECURSIVE RecordAll(_, _, _, _, _, _)
RecordAll(q, queue_id, rcpts, smtp_code, jitter_pct, t) ==
    IF rcpts = <<>> THEN q
    ELSE RecordAll(UpdateDeliveryStatus(q, queue_id, Head(rcpts), smtp_code,
                                        jitter_pct, t),
                   queue_id, Tail(rcpts), smtp_code, jitter_pct, t)

RECURSIVE LogAll(_, _, _, _, _, _)
LogAll(log, w, queue_id, rcpts, smtp_code, batch_attempts) ==
    IF rcpts = <<>> THEN log
    ELSE LogAll(Log(log, w, queue_id, Head(rcpts), smtp_code, batch_attempts),
                w, queue_id, Tail(rcpts), smtp_code, batch_attempts)

WorkerErrorSwallowed(w, jitter_pct) ==
    /\ workers[w].pc = "recover"
    /\ workers' = [workers EXCEPT ![w] = NextMessage(@)]
    /\ delivery_log' = [delivery_log EXCEPT
                           !.handled = @ \cup {<<w, Current(w).queue_id>>}]
    /\ UNCHANGED <<smtp_vars, stores, now, auth_log, rate_log, call,
                   domain_connections>>

WorkerErrorHandler(w, jitter_pct) ==
    /\ workers[w].pc = "recover"
    /\ LET id == Current(w).queue_id
           rcpts == pending_list(Current(w).message)
       IN /\ queue' = RecordAll(queue, id, rcpts, CODE_LOCAL_ERROR, jitter_pct, now)
          /\ delivery_log' =
                 [LogAll(delivery_log, w, id, rcpts, CODE_LOCAL_ERROR,
                         Current(w).message.attempts)
                     EXCEPT !.handled = @ \cup {<<w, id>>}]
    /\ workers' = [workers EXCEPT ![w] = NextMessage(@)]
    /\ UNCHANGED <<smtp_vars, auth, users, blacklist, greylist, rate_limits, ids_issued,
                   now, auth_log, rate_log, call, domain_connections>>

NextWorkers ==
    \/ \E rcpts \in {<<"r1@d.example">>, <<"r1@d.example", "r2@e.example">>} :
           enqueue_message("u@c.example", rcpts, <<"hi">>)
    \/ \E w \in Workers : Poll(w)
    \/ \E w \in Workers : deliver_message(w)
    \/ \E w \in Workers : MessageDone(w)
    \/ \E w \in Workers : deliver_to_domain(w)
    \/ \E w \in Workers, c \in SmtpCodes : attempt_delivery(w, c)
    \/ \E w \in Workers, j \in JitterPercents : ReportStatus(w, j)
    \/ \E w \in Workers : WorkerError(w)
    \/ \E w \in Workers, j \in JitterPercents : WorkerErrorHandler(w, j)
    \/ \E d \in WorkerTicks : Tick(d, MaxQueueTime)

SpecWorkers == Init /\ [][NextWorkers]_vars

\* ------------------------------------------------------------------------
\* The workers with the admin operations: delete of a message and stop
\* ------------------------------------------------------------------------
\* QueueService.delete_message on a queue id that was issued:
\* QueueRepository.delete removes the row and the message file and answers
\* True, also when the row is already gone
delete_message(queue_id) ==
    /\ queue_id <= ids_issued
    /\ queue' = [k \in DOMAIN queue \ {queue_id} |-> queue[k]]
    /\ delivery_log' = [delivery_log EXCEPT !.deleted = @ \cup {queue_id}]
    /\ UNCHANGED <<smtp_vars, auth, users, blacklist, greylist, rate_limits,
                   ids_issued, now, auth_log, rate_log, call, workers,
                   domain_connections>>

stop_keeps_slot(w) ==
    /\ workers[w].pc # "stopped"
    /\ workers' = [workers EXCEPT ![w] = [IdleWorker EXCEPT !.pc = "stopped"]]
    /\ delivery_log' =
           IF workers[w].pc = "sending"
           THEN [delivery_log EXCEPT !.cancelled = @ \cup {w}]
           ELSE delivery_log
    /\ UNCHANGED <<smtp_vars, stores, now, auth_log, rate_log, call,
                   domain_connections>>

\* DeliveryWorker.stop: task.cancel() raises CancelledError at the await the
\* task is suspended in; inside deliver_to_domain the finally block gives
\* the connection slot back, and _run leaves its loop
stop(w) ==
    /\ workers[w].pc # "stopped"
    /\ workers' = [workers EXCEPT ![w] = [IdleWorker EXCEPT !.pc = "stopped"]]
    /\ domain_connections' =
           IF workers[w].pc = "sending"
           THEN [domain_connections EXCEPT
                    ![Head(workers[w].domains).domain] = @ - 1]
           ELSE domain_connections
    /\ delivery_log' =
           IF workers[w].pc = "sending"
           THEN [delivery_log EXCEPT !.cancelled = @ \cup {w}]
           ELSE delivery_log
    /\ UNCHANGED <<smtp_vars, stores, now, auth_log, rate_log, call>>

NextAdmin ==
    \/ NextWorkers
    \/ \E id \in QueueIds : delete_message(id)
    \/ \E w \in Workers : stop(w)

SpecAdmin == Init /\ [][NextAdmin]_vars

\* ------------------------------------------------------------------------
\* The workers under fair scheduling, with time advancing past the expiry
\* of every message (no requeue, no delete, no stop)
\* ------------------------------------------------------------------------
\* half the queue age and a second: two ticks expire a message enqueued at 0
LiveTicks == {MAX_QUEUE_AGE \div 2 + 1}

\* one pass of _run's loop that finds messages.  Before a message expires
\* its retries are explored up to MaxLiveAttempts attempts; from its expiry
\* on every pass is explored.
PollLive(w) ==
    LET messages == find_ready_for_delivery(queue, now, POLL_LIMIT)
    IN /\ workers[w].pc = "idle"
       /\ messages # <<>>
       /\ \A i \in 1..Len(messages) :
             \/ messages[i].message.attempts < MaxLiveAttempts
             \/ is_expired(messages[i].message, MAX_QUEUE_AGE, now)
       /\ workers' = [workers EXCEPT ![w] =
              [IdleWorker EXCEPT !.pc = "deliver", !.batch = messages]]
       /\ UNCHANGED <<smtp_vars, stores, now, auth_log, rate_log, call,
                      domain_connections, delivery_log>>

\* the steps of worker w's task: the event loop runs a task that can run
WorkerStep(w) ==
    \/ PollLive(w)
    \/ deliver_message(w)
    \/ MessageDone(w)
    \/ deliver_to_domain(w)
    \/ \E c \in SmtpCodes : attempt_delivery(w, c)
    \/ ReportStatus(w, 0)
    \/ WorkerError(w)
    \/ WorkerErrorHandler(w, 0)

NextLive ==
    \/ now = 0 /\ enqueue_message("u@c.example", <<"r1@d.example">>, <<"hi">>)
    \/ \E w \in Workers : WorkerStep(w)
    \/ \E d \in LiveTicks : Tick(d, MaxLiveTime)

SpecLive ==
    /\ Init /\ [][NextLive]_vars
    /\ \A w \in Workers : WF_vars(WorkerStep(w))
    /\ WF_vars(\E d \in LiveTicks : Tick(d, MaxLiveTime))

\* ------------------------------------------------------------------------
\* QueueRepository.find_ready_for_delivery on a store of several messages
\* ------------------------------------------------------------------------
Limits == {1, 2}
ReadyTicks == {MaxReadyTime \div 2}

EnqueueStored(sender, recipients, message_data) ==
    /\ ids_issued < MaxStored
    /\ validate(sender, recipients, message_data)
    /\ queue' = enqueue(queue, ids_issued + 1,
                        NewQueuedMessage(sender, recipients, message_data, <<>>, now))
    /\ ids_issued' = ids_issued + 1
    /\ UNCHANGED <<smtp_vars, auth, users, blacklist, greylist, rate_limits, now,
                   auth_log, rate_log, call, delivery_vars>>

StoredOutcome(queue_id, recipient, smtp_code) ==
    /\ queue_id \in DOMAIN queue
    /\ queue[queue_id].attempts < MaxReadyAttempts
    /\ DeliveryOutcome(queue_id, recipient, smtp_code, 0)

get_messages_for_delivery(limit) ==
    /\ call' = [op |-> "find_ready_for_delivery", limit |-> limit, at |-> now,
                stored |-> queue,
                result |-> find_ready_for_delivery(queue, now, limit)]
    /\ UNCHANGED <<smtp_vars, stores, now, auth_log, rate_log, delivery_vars>>

NextReady ==
    \/ EnqueueStored("u@c.example", <<"r1@d.example">>, <<"hi">>)
    \/ \E id \in 1..MaxStored, c \in SmtpCodes : StoredOutcome(id, "r1@d.example", c)
    \/ \E limit \in Limits : get_messages_for_delivery(limit)
    \/ \E d \in ReadyTicks : Tick(d, MaxReadyTime)

SpecReady == Init /\ [][NextReady]_vars

\* ------------------------------------------------------------------------
\* One delivery of a message to one domain: deliver_message,
\* deliver_to_domain, attempt_delivery and _smtp_send of a single worker
\* ------------------------------------------------------------------------
DomainRecipients == <<"r1@d.example", "r3@d.example">>

\* the MX answers of the resolver: (preference, exchange) pairs
MxAnswers ==
    {{}, {<<10, "m1">>}, {<<10, "m1">>, <<20, "m2">>}, {<<20, "m1">>, <<10, "m2">>}}

MxHosts == {"m1", "m2"}

\* what one MX host does with a transaction: whether the connection comes
\* up, which recipients it refuses at RCPT TO, and its reply to the data
HostBehaviours ==
    {b \in [connect : BOOLEAN, refused : SUBSET SeqToSet(DomainRecipients),
            data : {250, 451, 554}] :
        /\ ~b.connect => (b.refused = {} /\ b.data = 250)
        /\ b.refused = SeqToSet(DomainRecipients) => b.data = 250}

\* mx_records.sort(): ascending preference
RECURSIVE sort_mx(_)
sort_mx(records) ==
    IF records = {} THEN <<>>
    ELSE LET first == CHOOSE r \in records : \A o \in records : r[1] <= o[1]
         IN <<first>> \o sort_mx(records \ {first})

\* smtplib raises SMTPRecipientsRefused only when every recipient was
\* refused; otherwise send_message returns the refused ones, which
\* _smtp_send does not look at
_smtp_send(b, recipients) ==
    IF ~b.connect THEN CODE_MAILBOX_UNAVAILABLE
    ELSE IF SeqToSet(recipients) \subseteq b.refused THEN CODE_MAILBOX_NOT_FOUND
    ELSE IF b.data = 250 THEN CODE_OK
    ELSE IF 500 <= b.data /\ b.data < 600 THEN b.data
    ELSE CODE_LOCAL_ERROR

StopsOnSuccessOnly(smtp_code) == 200 <= smtp_code /\ smtp_code < 300

\* the codes on which the MX loop returns at once
Stops(smtp_code) == (200 <= smtp_code /\ smtp_code < 300) \/ smtp_code >= 500

RECURSIVE try_mx(_, _, _, _, _)
try_mx(mx_records, behaviour, recipients, last_code, contacted) ==
    IF mx_records = <<>> THEN [code |-> last_code, contacted |-> contacted]
    ELSE LET mx_host == Head(mx_records)
             smtp_code == _smtp_send(behaviour[mx_host[2]], recipients)
         IN IF Stops(smtp_code)
            THEN [code |-> smtp_code, contacted |-> Append(contacted, mx_host)]
            ELSE try_mx(Tail(mx_records), behaviour, recipients, smtp_code,
                        Append(contacted, mx_host))

send_to_domain(answers, behaviour, recipients) ==
    IF answers = {}
    THEN [code |-> CODE_MAILBOX_NOT_FOUND, contacted |-> <<>>]
    ELSE try_mx(sort_mx(answers), behaviour, recipients,
                CODE_MAILBOX_UNAVAILABLE, <<>>)

DeliverToDomain(queue_id, answers, behaviour) ==
    /\ queue_id \in DOMAIN queue
    /\ queue[queue_id].attempts < MaxSendAttempts
    /\ LET groups == recipients_by_domain(
                         pending_list(find_by_id(queue, queue_id)), <<>>)
       IN /\ Len(groups) = 1
          /\ LET rcpts == groups[1].recipients
                 res == send_to_domain(answers, behaviour, rcpts)
                 after == RecordAll(queue, queue_id, rcpts, res.code, 0, now)
             IN /\ queue' = after
                /\ call' = [op |-> "deliver_to_domain", recipients |-> rcpts,
                            answers |-> answers, behaviour |-> behaviour,
                            contacted |-> res.contacted, code |-> res.code,
                            message |-> after[queue_id]]
    /\ UNCHANGED <<smtp_vars, auth, users, blacklist, greylist, rate_limits, ids_issued,
                   now, auth_log, rate_log, delivery_vars>>

NextSend ==
    \/ \E n \in 1..Len(DomainRecipients) :
           enqueue_message("u@c.example", SubSeq(DomainRecipients, 1, n), <<"hi">>)
    \/ \E id \in QueueIds, answers \in MxAnswers,
          behaviour \in [MxHosts -> HostBehaviours] :
           DeliverToDomain(id, answers, behaviour)

SpecSend == Init /\ [][NextSend]_vars

\* ========================================================================
\* Properties of the SMTP reception state machine (Spec)
\* ========================================================================

\* C1: a MAIL command before any accepted HELO/EHLO, a RCPT command before an
\* accepted MAIL, and a DATA command before an accepted RCPT are each answered
\* 503 and leave the session's state, mail_from and rcpt_to unchanged.
C1_BadSequence ==
    [][((obs'.cmd = "MAIL" /\ ~ghost.helo_accepted)
          \/ (obs'.cmd = "RCPT" /\ ~ghost.mail_accepted)
          \/ (obs'.cmd = "DATA" /\ ~ghost.rcpt_accepted))
       => /\ replies' = <<CODE_BAD_SEQUENCE>>
          /\ session'.state = session.state
          /\ session'.mail_from = session.mail_from
          /\ session'.rcpt_to = session.rcpt_to]_vars

\* a DATA command after an accepted MAIL and no accepted RCPT was answered 503
\* and the session still holds the sender
C1_Witness ==
    /\ obs.cmd = "DATA" /\ replies = <<CODE_BAD_SEQUENCE>>
    /\ ghost.mail_accepted /\ ~ghost.rcpt_accepted
    /\ session.state = "MAIL" /\ session.mail_from = "u@c.example"

\* C2: when DATA is answered 250 the stored message's recipients are, in
\* order, exactly the RCPT addresses accepted since the accepted MAIL FROM of
\* this transaction.
C2_EnvelopeAtomicity ==
    [][(obs'.cmd = "DATA" /\ replies' = <<CODE_START_MAIL, CODE_OK>>)
       => /\ ids_issued' \in DOMAIN queue'
          /\ queue'[ids_issued'].recipients = ghost.txn_rcpts]_vars

\* C3: on the submission listener with AUTH_REQUIRED_SUBMISSION a session
\* with no authenticated user is never in state MAIL or RCPT, has enqueued
\* nothing, and its MAIL from the greeted state is answered 530.
C3_SubmissionNeedsAuth ==
    (conn = "open" /\ session.is_submission /\ AUTH_REQUIRED_SUBMISSION
        /\ session.authenticated_user = None)
    => /\ session.state \notin {"MAIL", "RCPT"}
       /\ session.queue_id = 0
       /\ session.mail_from = None /\ session.rcpt_to = <<>>
       /\ (obs.cmd = "MAIL" /\ session.state = "GREETED")
             => replies = <<CODE_AUTH_REQUIRED>>

\* a greeted, unauthenticated submission session has sent MAIL and got 530
C3_Witness ==
    /\ conn = "open" /\ session.is_submission /\ session.authenticated_user = None
    /\ session.state = "GREETED" /\ session.tls_active
    /\ obs.cmd = "MAIL" /\ obs.address = "u@c.example"
    /\ replies = <<CODE_AUTH_REQUIRED>>

\* ========================================================================
\* Properties of AuthService (SpecAuth)
\* ========================================================================

\* C4: once AUTH_MAX_FAILURES calls of authenticate from one peer have been
\* refused on their credentials within AUTH_LOCKOUT_DURATION, with no success
\* between them, the next call from that peer returns no user, whatever its
\* credentials.
C4_Lockout ==
    \A ip \in IPs :
        auth_log[ip].failed_before >= AUTH_MAX_FAILURES => auth_log[ip].user = None

\* ========================================================================
\* Properties of the token bucket (SpecRate)
\* ========================================================================
SameInstant(k) == \A i \in 1..k : rate_log[i].t = rate_log[1].t

\* C5: on a fresh bucket of capacity C and refill rate r, the checks made at
\* the instant of the first are answered true exactly for the first C; when
\* C+1 checks were made at that instant and 1/r seconds have passed, the next
\* check is answered true and the one after it, at the same instant, false.
C5_TokenBucket ==
    \A key \in DOMAIN rate_limits :
        LET b == rate_limits[key]
            C == b.capacity
            period == b.rate_den \div b.rate_num
            n == Len(rate_log)
        IN /\ \A k \in 1..n : SameInstant(k) => (rate_log[k].allowed <=> k <= C)
           /\ (n >= C + 2 /\ SameInstant(C + 1)
                 /\ rate_log[C + 2].t = rate_log[1].t + period)
              => /\ rate_log[C + 2].allowed
                 /\ (n >= C + 3 /\ rate_log[C + 3].t = rate_log[C + 2].t)
                       => ~rate_log[C + 3].allowed

\* the bucket of capacity 3 refilled every 2 seconds: three checks allowed
\* and one refused at instant 0, one allowed and one refused at instant 2
C5_Witness ==
    /\ <<"ip", "b">> \in DOMAIN rate_limits
    /\ rate_log = << [t |-> 0, allowed |-> TRUE], [t |-> 0, allowed |-> TRUE],
                     [t |-> 0, allowed |-> TRUE], [t |-> 0, allowed |-> FALSE],
                     [t |-> 2, allowed |-> TRUE], [t |-> 2, allowed |-> FALSE] >>

\* ========================================================================
\* Properties of QueueService (SpecQueue)
\* ========================================================================

\* C6: when update_delivery_status records a 4xx on attempt k (counted from
\* 0, k < len(RETRY_SCHEDULE)) and a recipient stays pending or deferred, the
\* stored next_retry_at lies between 0.8 and 1.2 times RETRY_SCHEDULE[k]
\* after now.
C6_RetryDelay ==
    [][\A id \in DOMAIN queue :
          LET k == queue[id].attempts
              m == queue'[id]
          IN (/\ m.attempts = k + 1
              /\ m.last_error \in 400..499
              /\ k < Len(RETRY_SCHEDULE)
              /\ pending_recipients(m) # {})
             => /\ 5 * (m.next_retry_at - now) >= 4 * RETRY_SCHEDULE[k + 1]
                /\ 5 * (m.next_retry_at - now) <= 6 * RETRY_SCHEDULE[k + 1]]_vars

\* C7: no message whose attempts reached len(RETRY_SCHEDULE) is stored with
\* status active or deferred.
C7_RetryExhaustion ==
    \A id \in DOMAIN queue :
        queue[id].attempts >= Len(RETRY_SCHEDULE)
            => queue[id].status \notin {"active", "deferred"}

\* C8: update_delivery_status on a message older than MAX_QUEUE_AGE stores
\* status bounce whatever the code, and leaves no recipient pending or
\* deferred.
C8_Expiry ==
    [][\A id \in DOMAIN queue :
          (/\ queue'[id].attempts = queue[id].attempts + 1
           /\ now - queue[id].created_at > MAX_QUEUE_AGE)
          => /\ queue'[id].status = "bounce"
             /\ pending_recipients(queue'[id]) = {}]_vars

\* C9: a stored message has status delivered exactly when every one of its
\* recipients is delivered.
C9_DeliveredIff ==
    \A id \in DOMAIN queue :
        queue[id].status = "delivered" <=> all_delivered(queue[id])

\* C10: a stored message has status bounce exactly when no recipient is
\* pending or deferred and at least one is bounce; while a recipient is
\* pending or deferred the status is active or deferred.
C10_BounceIff ==
    \A id \in DOMAIN queue :
        LET m == queue[id] IN
        /\ m.status = "bounce"
              <=> (/\ pending_recipients(m) = {}
                   /\ \E r \in DOMAIN m.recipient_status :
                          m.recipient_status[r] = "bounce")
        /\ pending_recipients(m) # {} => m.status \in {"active", "deferred"}

\* ========================================================================
\* Properties of DATA and STARTTLS (Spec)
\* ========================================================================

\* C16: for a payload P of CRLF-terminated lines sent through DATA with
\* dot-stuffing and accepted, the stored body read back by queue id is P
\* character for character once the Received header is stripped.
C16_DotTransparency ==
    [][\A p \in Payloads :
          (_handle_DATA("", DataStream(p)) /\ replies' = <<CODE_START_MAIL, CODE_OK>>)
          => Tail(find_by_id(queue', ids_issued').data) = join(p)]_vars

\* C17: when the accumulated size exceeds the maximum the server replies 552,
\* clears mail_from and rcpt_to, enqueues nothing and continues in state
\* GREETED.
C17_OversizeAborts ==
    [][(obs'.cmd = "DATA" /\ replies' = <<CODE_START_MAIL, CODE_EXCEEDED_STORAGE>>)
       => /\ session'.state = "GREETED"
          /\ session'.mail_from = None
          /\ session'.rcpt_to = <<>>
          /\ queue' = queue]_vars

\* C18: after a successful STARTTLS tls_active is true, state is INITIAL and
\* helo_name, esmtp, authenticated_user, mail_from and rcpt_to hold their
\* initial values.
C18_StartTlsWipes ==
    [][(obs'.cmd = "STARTTLS" /\ replies' = <<CODE_READY>>)
       => /\ session'.tls_active /\ session'.state = "INITIAL"
          /\ session'.helo_name = None
          /\ ~session'.esmtp
          /\ session'.authenticated_user = None
          /\ session'.mail_from = None
          /\ session'.rcpt_to = <<>>]_vars

\* C20: MAIL FROM:<> is answered 250, and DATA on a transaction with the
\* empty sender, an accepted recipient and a non-empty body is answered 250
\* with the message enqueued.
C20_NullSender ==
    [][/\ (obs'.cmd = "MAIL" /\ obs'.address = "<>"
            /\ replies' \notin {<<CODE_BAD_SEQUENCE>>, <<CODE_AUTH_REQUIRED>>,
                                <<CODE_SYNTAX_ERROR_PARAM>>, <<CODE_MAILBOX_NOT_FOUND>>,
                                <<CODE_MAILBOX_UNAVAILABLE>>})
          => (replies' = <<CODE_OK>> /\ session'.mail_from = "")
       /\ \A p \in Payloads :
            (/\ session.state = "RCPT" /\ session.mail_from = ""
             /\ _handle_DATA("", DataStream(p))
             /\ replies' # <<CODE_START_MAIL, CODE_EXCEEDED_STORAGE>>)
            => /\ replies' = <<CODE_START_MAIL, CODE_OK>>
               /\ ids_issued' = ids_issued + 1
               /\ queue'[ids_issued'].sender = ""
               /\ queue'[ids_issued'].recipients = session.rcpt_to]_vars

\* ========================================================================
\* Further properties of QueueService (SpecQueue)
\* ========================================================================

\* C15: update_delivery_status applied a second time with the same queue id,
\* recipient and code leaves the stored recipient states, attempts, status
\* and retry time as the first application left them.
C15_Idempotent ==
    [][\A id \in QueueIds, r \in Recipients, c \in SmtpCodes, j \in JitterPercents :
          DeliveryOutcome(id, r, c, j)
          => LET once == queue'[id]
                 twice == update_delivery_status(once, r, c, j, now)
             IN /\ twice.recipient_status = once.recipient_status
                /\ twice.attempts = once.attempts
                /\ twice.status = once.status
                /\ twice.next_retry_at = once.next_retry_at]_vars

\* ========================================================================
\* Properties of the delivery workers (SpecWorkers)
\* ========================================================================
InDelivery == {"gate", "sending", "update"}

InFlight(d) ==
    {w \in Workers : /\ workers[w].pc = "sending"
                     /\ Head(workers[w].domains).domain = d}

C12_OneWorkerPerMessage ==
    \A w \in Workers, v \in Workers :
        (/\ w # v
         /\ workers[w].pc \in InDelivery
         /\ workers[v].pc \in InDelivery)
        => Current(w).queue_id # Current(v).queue_id

\* C13: the terminal states reported for one recipient of one message by
\* workers that polled the message in the same attempt batch never
\* conflict: they are all delivered or all bounce.
C13_NoConflictingTerminal ==
    \A a \in delivery_log.terminal, b \in delivery_log.terminal :
        (/\ a.queue_id = b.queue_id
         /\ a.recipient = b.recipient
         /\ a.batch = b.batch)
        => a.delivered = b.delivered

StateOf(smtp_code) ==
    IF smtp_code = 0 THEN "pending"
    ELSE IF smtp_code < 300 THEN "delivered"
    ELSE IF smtp_code < 500 THEN "deferred"
    ELSE "bounce"

\* C14: no update_delivery_status call of a worker is lost: the stored
\* attempts of a message equal the number of calls that returned for it,
\* and every recipient is in the state of the last call made for it, also
\* when calls of different workers for different recipients alternate.
C14_NoLostUpdate ==
    \A id \in DOMAIN queue :
        /\ queue[id].attempts = delivery_log.calls[id]
        /\ \A r \in DOMAIN queue[id].recipient_status :
               queue[id].recipient_status[r] = StateOf(delivery_log.last[id][r])

C14_Witness ==
    \E id \in DOMAIN queue, r \in Recipients, o \in Recipients :
        /\ delivery_log.by[id][r] # 0
        /\ delivery_log.by[id][o] # 0
        /\ delivery_log.by[id][r] # delivery_log.by[id][o]
        /\ delivery_log.last[id][r] # delivery_log.last[id][o]
        /\ queue[id].attempts >= 2

\* The step in which worker w runs the except branch of _run for the
\* message it was delivering.
HandlerRan(w) == workers[w].pc = "recover" /\ workers'[w].pc # "recover"

Recorded451(w) ==
    LET id == Current(w).queue_id
    IN /\ id \in DOMAIN queue'
       /\ \A r \in pending_recipients(queue[id]) :
              queue'[id].recipient_status[r] = "deferred"
       /\ queue'[id].last_error = CODE_LOCAL_ERROR
       /\ workers'[w].batch = Tail(workers[w].batch)
       /\ workers'[w].pc = IF workers'[w].batch = <<>> THEN "idle" ELSE "deliver"

RetryScheduled(m) == m.status = "deferred" /\ m.next_retry_at # NoTime

\* C19 as stated: after an exception inside deliver_message every recipient
\* still pending or deferred is deferred with 451, the message is in the
\* store with a retry scheduled, and the worker goes on to its next message.
C19_ExceptionAsStated ==
    [][\A w \in Workers :
          HandlerRan(w)
          => /\ Recorded451(w)
             /\ RetryScheduled(queue'[Current(w).queue_id])]_vars

\* C19, amended: after an exception inside deliver_message every recipient
\* still pending or deferred is deferred with 451, the message is in the
\* store and the worker goes on to its next message; a message past
\* MAX_QUEUE_AGE is marked bounce, any other message with an entry of
\* RETRY_SCHEDULE left for its attempt count is deferred with a retry time.
C19_ExceptionKeepsMessage ==
    [][\A w \in Workers :
          HandlerRan(w)
          => LET before == queue[Current(w).queue_id]
                 after == queue'[Current(w).queue_id]
             IN /\ Recorded451(w)
                /\ IF is_expired(before, MAX_QUEUE_AGE, now)
                   THEN after.status = "bounce"
                   ELSE after.attempts < Len(RETRY_SCHEDULE)
                        => RetryScheduled(after)]_vars

C19_Witness ==
    \E w \in Workers, id \in DOMAIN queue :
        /\ <<w, id>> \in delivery_log.handled
        /\ workers[w].pc \in {"idle", "deliver"}
        /\ delivery_log.by[id]["r2@e.example"] = w
        /\ delivery_log.last[id]["r2@e.example"] = CODE_LOCAL_ERROR
        /\ queue[id].recipient_status["r2@e.example"] = "deferred"
        /\ RetryScheduled(queue[id])

\* ========================================================================
\* Further properties of the stored message (SpecQueue)
\* ========================================================================

\* C30: every stored message whose status is delivered has no retry time.
C30_DeliveredHasNoRetry ==
    \A id \in DOMAIN queue :
        queue[id].status = "delivered" => queue[id].next_retry_at = NoTime

\* ========================================================================
\* Further properties of the SMTP session (Spec)
\* ========================================================================

\* C27: in the states INITIAL, GREETED, AUTHENTICATED and QUIT the envelope
\* is empty: mail_from is unset and rcpt_to holds no recipient.
C27_EnvelopeOnlyInTransaction ==
    session.state \in {"INITIAL", "GREETED", "AUTHENTICATED", "QUIT"}
    => (session.mail_from = None /\ session.rcpt_to = <<>>)

KnownCommands ==
    {"HELO", "EHLO", "STARTTLS", "AUTH", "MAIL", "RCPT", "DATA", "RSET", "NOOP",
     "QUIT", "VRFY", "HELP"}

HasErrorReply(rs) == \E i \in 1..Len(rs) : rs[i] >= 400

\* C24: every known command that is answered with an error reply (4xx or
\* 5xx) adds one to error_count, and when error_count has reached
\* SMTP_MAX_ERRORS the last reply is 421 and the connection is closed.
C24_ErrorsCounted ==
    [][(obs'.cmd \in KnownCommands /\ HasErrorReply(replies'))
       => /\ session'.error_count = session.error_count + 1
          /\ session'.error_count >= SMTP_MAX_ERRORS
             => (Last(replies') = CODE_SERVICE_NOT_AVAILABLE /\ conn' = "closed")]_vars

\* C26: between a successful STARTTLS and the next accepted HELO or EHLO no
\* AUTH is answered 235 and no MAIL FROM is answered 250.
C26_HeloAfterStartTls ==
    [][ghost.helo_due
       => /\ ~(obs'.cmd = "AUTH" /\ Last(replies') = CODE_AUTH_SUCCESS)
          /\ ~(obs'.cmd = "MAIL" /\ Last(replies') = CODE_OK)]_vars

\* C25: whenever the peer has been silent for SMTP_TIMEOUT at a read of the
\* session (command line, AUTH continuation line, DATA line) the session
\* replies 421 and the connection is closed.
C25_ReadTimeout ==
    [][obs'.cmd = "TIMEOUT"
       => (Last(replies') = CODE_SERVICE_NOT_AVAILABLE /\ conn' = "closed")]_vars

\* ========================================================================
\* Further properties of AuthService (SpecAuth)
\* ========================================================================

\* C23: create_user for a username that is already stored leaves the stored
\* users, that user's record and password hash included, as they were.
C23_CreateExistingFails ==
    [][\A n \in Usernames, p \in Passwords :
          (CreateUser(n, p) /\ n \in DOMAIN users) => users' = users]_vars

\* ========================================================================
\* Further properties of the delivery workers (SpecWorkers)
\* ========================================================================

\* C28: a recipient whose stored state is delivered keeps that state in
\* every step, and no worker starts a delivery attempt to a domain for a
\* recipient whose stored state is delivered.
C28_DeliveredAbsorbing ==
    [][/\ \A id \in DOMAIN queue, r \in Recipients :
             (r \in DOMAIN queue[id].recipient_status
              /\ queue[id].recipient_status[r] = "delivered")
             => queue'[id].recipient_status[r] = "delivered"
       /\ \A w \in Workers :
             (workers[w].pc = "gate" /\ workers'[w].pc = "sending")
             => \A i \in 1..Len(Head(workers[w].domains).recipients) :
                   queue[Current(w).queue_id].recipient_status[
                       Head(workers[w].domains).recipients[i]] # "delivered"]_vars

\* ========================================================================
\* Properties of find_ready_for_delivery (SpecReady)
\* ========================================================================
Fresh(m) == m.status = "active" /\ m.attempts = 0 /\ m.next_retry_at = NoTime

Ready(m, t) ==
    /\ m.status \in {"active", "deferred"}
    /\ (m.next_retry_at = NoTime \/ m.next_retry_at <= t)

ReturnedIds(c) == {c.result[i].queue_id : i \in 1..Len(c.result)}

ReadyResult(c) ==
    /\ Len(c.result) <= c.limit
    /\ \A i \in 1..Len(c.result) :
           /\ c.result[i].queue_id \in DOMAIN c.stored
           /\ c.result[i].message.status = c.stored[c.result[i].queue_id].status
           /\ Ready(c.result[i].message, c.at)
    /\ \A i \in 1..Len(c.result), j \in 1..Len(c.result) :
           i < j => /\ c.result[i].message.created_at <= c.result[j].message.created_at
                    /\ c.result[i].queue_id # c.result[j].queue_id

\* C21 as stated: the result has at most limit messages, each active or
\* deferred with a retry time that is null or not after now, in ascending
\* created_at order, and every freshly enqueued message is in the result of
\* the next call.
C21_ReadyAsStated ==
    call.op = "find_ready_for_delivery"
    => /\ ReadyResult(call)
       /\ \A id \in DOMAIN call.stored :
              Fresh(call.stored[id]) => id \in ReturnedIds(call)

\* C21, amended: the same, where a freshly enqueued message is in the result
\* of the next call when fewer than limit other ready messages were created
\* no later than it.
C21_Ready ==
    call.op = "find_ready_for_delivery"
    => /\ ReadyResult(call)
       /\ \A id \in DOMAIN call.stored :
              (/\ Fresh(call.stored[id])
               /\ Cardinality({o \in DOMAIN call.stored \ {id} :
                                  /\ Ready(call.stored[o], call.at)
                                  /\ call.stored[o].created_at
                                        <= call.stored[id].created_at})
                     < call.limit)
              => id \in ReturnedIds(call)

C21_Witness ==
    /\ call.op = "find_ready_for_delivery"
    /\ Len(call.result) = 2
    /\ call.result[1].message.created_at < call.result[2].message.created_at
    /\ call.result[1].message.status = "deferred"
    /\ Fresh(call.result[2].message)
    /\ \E id \in DOMAIN call.stored :
           /\ id \notin ReturnedIds(call)
           /\ \/ call.stored[id].status \in {"delivered", "bounce"}
              \/ call.stored[id].next_retry_at > call.at

\* ========================================================================
\* Properties of one delivery to a domain (SpecSend)
\* ========================================================================
AnswerOf(c, i) == _smtp_send(c.behaviour[c.contacted[i][2]], c.recipients)

Decisive(smtp_code) ==
    (200 <= smtp_code /\ smtp_code < 300) \/ (500 <= smtp_code /\ smtp_code < 600)

\* C22: the hosts contacted are the MX hosts of lowest preference value in
\* ascending order; only the last contacted host may have answered 2xx or
\* 5xx, and then its answer is the result; otherwise every host was
\* contacted, all ended 4xx, and the result is the answer of the last one.
\* A 2xx result leaves the recipients delivered.
C22_MxOrder ==
    (call.op = "deliver_to_domain" /\ call.answers # {})
    => LET n == Len(call.contacted)
       IN /\ n >= 1
          /\ \A i \in 1..n : call.contacted[i] \in call.answers
          /\ \A i \in 1..n, j \in 1..n :
                 i < j => call.contacted[i][1] < call.contacted[j][1]
          /\ \A h \in call.answers :
                 (\A i \in 1..n : call.contacted[i] # h)
                 => \A i \in 1..n : call.contacted[i][1] <= h[1]
          /\ \A i \in 1..(n - 1) : ~Decisive(AnswerOf(call, i))
          /\ call.code = AnswerOf(call, n)
          /\ ~Decisive(call.code) => n = Cardinality(call.answers)
          /\ call.code = CODE_OK
             => \A i \in 1..Len(call.recipients) :
                    call.message.recipient_status[call.recipients[i]] = "delivered"

C22_Witness ==
    /\ call.op = "deliver_to_domain"
    /\ Len(call.contacted) = 2
    /\ call.contacted[2] = <<20, "m1">>
    /\ AnswerOf(call, 1) = CODE_LOCAL_ERROR
    /\ call.code = CODE_OK
    /\ call.message.status = "delivered"

\* C29: after a delivery to a domain no recipient that the answering host
\* refused at RCPT TO is in state delivered.
C29_RefusedNotDelivered ==
    (call.op = "deliver_to_domain" /\ call.contacted # <<>>)
    => \A i \in 1..Len(call.recipients) :
           call.recipients[i] \in call.behaviour[Last(call.contacted)[2]].refused
           => call.message.recipient_status[call.recipients[i]] # "delivered"


\* ========================================================================
\* Failure recording of AuthService.authenticate (SpecAuth)
\* ========================================================================

\* C35: every authenticate call from a peer that is not locked out and that
\* returns no user (the user is missing, disabled, or the password is wrong)
\* records a failure for that peer: the instant of the call is the last entry
\* of the peer's failed attempts afterwards.
C35_FailureRecorded ==
    [][\A n \in Usernames, p \in Passwords, ip \in IPs :
          (/\ Authenticate(n, p, ip)
           /\ ~_is_locked(auth, ip, now).locked
           /\ auth_log'[ip].user = None)
          => (/\ Len(auth'.failed_attempts[ip]) > 0
              /\ Last(auth'.failed_attempts[ip]) = now)]_vars


\* ========================================================================
\* Admin requeue (SpecQueue)
\* ========================================================================

\* C33: requeue of a stored message answers True and leaves it with no retry
\* time, status active, every deferred or bounce recipient pending, every
\* delivered or pending recipient as it was, and attempts, envelope, data and
\* every other message unchanged; requeue of an unknown queue id answers False
\* and changes nothing in the queue.
C33_Requeue ==
    [][\A id \in QueueIds :
          Requeue(id) =>
            IF id \in DOMAIN queue
            THEN LET before == queue[id]
                     after == queue'[id]
                 IN /\ call'.result
                    /\ DOMAIN queue' = DOMAIN queue
                    /\ \A o \in DOMAIN queue \ {id} : queue'[o] = queue[o]
                    /\ after.next_retry_at = NoTime
                    /\ after.status = "active"
                    /\ DOMAIN after.recipient_status = DOMAIN before.recipient_status
                    /\ \A r \in DOMAIN before.recipient_status :
                          after.recipient_status[r] =
                              IF before.recipient_status[r] \in {"deferred", "bounce"}
                              THEN "pending"
                              ELSE before.recipient_status[r]
                    /\ after.attempts = before.attempts
                    /\ after.sender = before.sender
                    /\ after.recipients = before.recipients
                    /\ after.data = before.data
                    /\ after.created_at = before.created_at
            ELSE ~call'.result /\ queue' = queue]_vars

\* a requeued message that keeps a delivered recipient, has a recipient set
\* back to pending, and keeps its two attempts
C33_Witness ==
    /\ call.op = "requeue_message"
    /\ call.result
    /\ \E id \in DOMAIN queue :
          /\ queue[id].status = "active"
          /\ queue[id].attempts = 2
          /\ \E r \in DOMAIN queue[id].recipient_status :
                queue[id].recipient_status[r] = "delivered"
          /\ \E r \in DOMAIN queue[id].recipient_status :
                queue[id].recipient_status[r] = "pending"


\* C31: every stored message whose status is active or deferred has at least
\* one recipient that is pending or deferred, so that a dispatch of it has a
\* recipient to attempt.
C31_ReadyHasPending ==
    \A id \in DOMAIN queue :
        queue[id].status \in {"active", "deferred"}
            => pending_recipients(queue[id]) # {}


\* ========================================================================
\* The synthesized Received header (Spec)
\* ========================================================================

\* C36: the id of the Received header of every stored message is the queue
\* id under which the message is stored.
C36_ReceivedId ==
    \A id \in DOMAIN queue :
        Head(find_by_id(queue, id).data).id_part = id

\* C37: the protocol token of the Received header of every stored message is
\* ESMTP when the session was plaintext, ESMTPS when TLS was active without
\* authentication, and ESMTPSA when TLS was active with authentication.
C37_ProtocolToken ==
    \A id \in DOMAIN queue :
        LET m == find_by_id(queue, id) IN
        Head(m.data).with_part =
            IF ~m.session_info.tls_active THEN "ESMTP"
            ELSE IF m.session_info.authenticated_user = None THEN "ESMTPS"
            ELSE "ESMTPSA"


\* ========================================================================
\* Rate limiting of MAIL FROM (SpecMail)
\* ========================================================================

\* the bucket a MAIL FROM of session s is charged to
BucketOf(s) ==
    IF s.authenticated_user # None THEN <<"user", s.authenticated_user>>
    ELSE <<"ip", s.peer_ip>>

\* C38: every MAIL FROM answered 250 has taken exactly one token from the
\* bucket of the authenticated user when the session is authenticated, and
\* from the bucket of the peer otherwise: the bucket exists afterwards and
\* holds one token less than it held (after its refill, or than its capacity
\* when the call created it).
C38_MailConsumesToken ==
    [][\A a \in MailArgs :
          (_handle_MAIL(a) /\ replies' = <<CODE_OK>>)
          => LET key == BucketOf(session) IN
             /\ key \in DOMAIN rate_limits'
             /\ rate_limits'[key].tokens =
                   IF key \in DOMAIN rate_limits
                   THEN refill(rate_limits[key], now).tokens - rate_limits[key].rate_den
                   ELSE (rate_limits'[key].capacity - 1) * rate_limits'[key].rate_den]_vars


\* ========================================================================
\* Greylisting (SpecGreylist)
\* ========================================================================

\* C34: a check of a known triplet whose first_seen is more than
\* GREYLIST_MAX_AGE old treats the triplet as new: the check is deferred and
\* the entry's first_seen is reset to the instant of the check, not passed.
C34_AgedTripletRestarts ==
    [][\A tr \in Triplets, w \in BOOLEAN :
          (/\ CheckGreylist(tr, w)
           /\ tr \in DOMAIN greylist
           /\ now - greylist[tr].first_seen > GREYLIST_MAX_AGE)
          => (/\ call'.outcome = "deferred"
              /\ greylist'[tr].first_seen = now
              /\ ~greylist'[tr].passed)]_vars


\* ========================================================================
\* Workers under delete and stop (SpecAdmin)
\* ========================================================================

\* C39: a message whose delete answered True is not stored in any later
\* state, also after a worker that had read it reports a delivery status for
\* it.
C39_NoResurrection ==
    \A id \in delivery_log.deleted : id \notin DOMAIN queue

\* a worker has reported a status for a message that had been deleted
C39_Witness ==
    \E id \in delivery_log.deleted : id \in delivery_log.late

\* the workers that leave the connection attempt for domain d in this step
Leaving(d) ==
    {w \in Workers : /\ workers[w].pc = "sending"
                     /\ Head(workers[w].domains).domain = d
                     /\ workers'[w].pc # "sending"}

\* C40: the active-connection counter of a domain is never negative and is 0
\* when no delivery to the domain is in flight; a call past the gate gives
\* its slot back exactly once when it ends, however it ends (a reply, an
\* exception, the cancellation of its task), and the counter goes down on no
\* other step.
C40_CounterBalanced ==
    /\ [](\A d \in Domains :
             /\ domain_connections[d] >= 0
             /\ InFlight(d) = {} => domain_connections[d] = 0)
    /\ [][\A d \in Domains :
             IF Leaving(d) # {}
             THEN domain_connections'[d] =
                      domain_connections[d] - Cardinality(Leaving(d))
             ELSE domain_connections'[d] >= domain_connections[d]]_vars

\* a delivery was cancelled in flight and every counter is back at 0
C40_Witness ==
    /\ delivery_log.cancelled # {}
    /\ \A d \in Domains : domain_connections[d] = 0


\* ========================================================================
\* Eventual outcome (SpecLive)
\* ========================================================================
Terminal(id) == id \in DOMAIN queue /\ queue[id].status \in {"delivered", "bounce"}

\* C32: with running workers scheduled fairly and time advancing, and no
\* requeue or delete, every enqueued message eventually has status delivered
\* or bounce and keeps a status of that kind from then on.
C32_EventualOutcome ==
    \A id \in QueueIds : (id \in DOMAIN queue) ~> [](Terminal(id))


\* a message with at least two attempts that an attempt reported after its
\* expiry has bounced, its recipient still deferred
C32_Witness ==
    \E id \in DOMAIN queue :
        /\ queue[id].status = "bounce"
        /\ queue[id].attempts >= 2
        /\ is_expired(queue[id], MAX_QUEUE_AGE, now)
        /\ \E r \in DOMAIN queue[id].recipient_status :
              queue[id].recipient_status[r] = "deferred"

============================================================================
